---- MODULE Spec2Model ----
(***************************************************************************)
(* Model of the bytecode syncer of eth/protocols/sstorage/sync.go: the     *)
(* peer registry, the two request ledgers, the dispatcher loop of Sync,    *)
(* the reply handlers onByteCodes / onHealByteCodes with their validator,  *)
(* the revert path and the persistence of delivered bytecodes.             *)
(***************************************************************************)
EXTENDS Integers, Sequences, FiniteSets, TLC

(* ------------------------------ bounds -------------------------------- *)
NumPeers == 1
NumHashes == 2
NumTasks == 1
MaxReqs == 2
MaxReply == 2
MaxCycles == 1
MaxEvents == 1
MaxCap == 2
ValReply == 3
NumRegIds == 3
HashBits == 8
MaxCount == 1
NumPassTasks == 2
MaxId == 3

(* ------------------------- program constants -------------------------- *)
maxRequestSize == 524288
maxCodeRequestCount == (maxRequestSize \div 24576) * 4
maxTrieRequestCount == maxRequestSize \div 512
accountConcurrency == 16

(* ------------------------------ domains ------------------------------- *)
Peers == 1..NumPeers
Hashes == 1..NumHashes
TaskIds == 1..NumTasks
Caps == 0..MaxCap

\* The hashes and the blobs there are.  The account tasks of a sync cycle
\* ask for the codes of Hashes, the healer for those of the other hashes.
HashSpace == 1..(NumHashes + 2)
AllBlobs == 1..(NumHashes + 2)

Nil == 0

\* Keccak256 of a blob: a bijection between the blobs and the hashes.
Keccak(b) == (b % (NumHashes + 2)) + 1

\* len(code): no two blobs are as long, two of them take two digits.
BlobLen(b) == IF b = Nil THEN 0 ELSE b + 5

\* The blobs the peers of a sync cycle send: any of them; those of the heal
\* phase are foreign to a request of the sync phase and the other way round.
Blobs == AllBlobs

SeqsUpTo(S, n) == UNION {[1..k -> S] : k \in 0..n}
Replies == SeqsUpTo(Blobs, MaxReply)
Range(s) == {s[i] : i \in DOMAIN s}
Perms(S) == {f \in [1..Cardinality(S) -> S] : Range(f) = S}
Min(a, b) == IF a < b THEN a ELSE b

RECURSIVE SumLen(_)
SumLen(s) == IF s = <<>> THEN 0
             ELSE (IF Head(s) = Nil THEN 0 ELSE BlobLen(Head(s))) + SumLen(Tail(s))

RECURSIVE SumOver(_, _)
SumOver(S, f) ==
  IF S = {} THEN 0
  ELSE LET x == CHOOSE y \in S : TRUE IN f[x] + SumOver(S \ {x}, f)

(* ------------------------------- state -------------------------------- *)
VARIABLES
  peers,              \* s.peers (ids)
  statelessPeers,     \* s.statelessPeers
  bytecodeIdlers,     \* s.bytecodeIdlers
  bytecodeHealIdlers, \* s.bytecodeHealIdlers
  bytecodeReqs,       \* s.bytecodeReqs (ids; the records live in reqs)
  bytecodeHealReqs,   \* s.bytecodeHealReqs
  reqs,               \* every request object allocated so far, by id
  tasks,              \* s.tasks: the ids of the live account tasks, in order
  taskHeap,           \* the account task objects
  healer,             \* s.healer: codeTasks and the trie scheduler
  snapped,            \* s.snapped
  update,             \* s.update (buffer of one)
  peerJoin,           \* the cycle's peerJoin channel (number of queued ids)
  peerDrop,           \* the cycle's peerDrop channel (queued ids)
  cancel,             \* the cancel channel of each cycle is closed
  loop,               \* position of Sync: idle, top, select, reverting
  dropSnap,           \* revertRequests: requests gathered, not yet reverted
  cycle,              \* number of Sync calls so far
  syncErr,            \* result of the last Sync call
  codeStore,          \* the code entries of s.db
  status,             \* the persisted SyncProgress
  bytecodeSynced, bytecodeBytes, bytecodeHealSynced, bytecodeHealBytes,
  persisted,          \* history: hashes written to the store in this cycle
  workSet,            \* history: hashes handed to the work sources this cycle
  submitted,          \* history: (hash, blob) pairs written or submitted
  val                 \* a function of the syncer applied on its own: its
                      \* drawn inputs, its position and its result

vars == <<peers, statelessPeers, bytecodeIdlers, bytecodeHealIdlers,
          bytecodeReqs, bytecodeHealReqs, reqs, tasks, taskHeap, healer,
          snapped, update, peerJoin, peerDrop, cancel, loop, dropSnap, cycle,
          syncErr, codeStore, status, bytecodeSynced, bytecodeBytes,
          bytecodeHealSynced, bytecodeHealBytes, persisted, workSet, submitted,
          val>>

registry == <<peers, statelessPeers, bytecodeIdlers, bytecodeHealIdlers>>
counters == <<bytecodeSynced, bytecodeBytes, bytecodeHealSynced, bytecodeHealBytes>>
history == <<persisted, workSet, submitted>>
ledgers == <<bytecodeReqs, bytecodeHealReqs, reqs>>
sources == <<tasks, taskHeap, healer, snapped>>
channels == <<update, peerJoin, peerDrop>>
database == <<codeStore, status>>
NoVal == [hashes |-> <<>>, bytecodes |-> <<>>, heal |-> FALSE, done |-> FALSE,
          ok |-> FALSE, codes |-> <<>>, op |-> "none", id |-> 0, err |-> "none"]

(* ------------------------- work sources ------------------------------- *)
\* The code hashes of the accounts of account task t, and the codes the trie
\* scheduler of the healer asks for: those the database lacks when the
\* account tasks are done, the two hashes past the hashes of the tasks.
TaskWant(t) == IF t = 1 THEN Hashes ELSE {1}
HealWant == {NumHashes + 1, NumHashes + 2}

\* A variant of LoadTask that takes a task for finished once one of its codes
\* is stored.
LoadTaskAnyStored(t, store) ==
  LET need == IF \E h \in TaskWant(t) : store[h] # Nil THEN {}
              ELSE TaskWant(t)
  IN [codeTasks |-> need, needCode |-> need, res |-> TRUE, done |-> need = {}]

\* An account task in its bytecode retrieval phase: the codes not yet stored
\* are needed (needCode, pend) and queued (codeTasks).
LoadTask(t, store) ==
  LET need == {h \in TaskWant(t) : store[h] = Nil}
  IN [codeTasks |-> need, needCode |-> need, res |-> TRUE, done |-> need = {}]

\* forwardAccountTask: a task with no outstanding retrieval is finished.
forwardAccountTask(tk) ==
  IF tk.needCode = {} THEN [tk EXCEPT !.done = TRUE, !.res = FALSE] ELSE tk

\* cleanAccountTasks: drop the finished tasks from s.tasks.
cleanAccountTasks(ts, heap) == SelectSeq(ts, LAMBDA t : ~heap[t].done)

\* A variant of Pending that leaves out the codes handed out by Missing.
PendingQueueOnly(h) == Cardinality(h.queue)

\* healer.scheduler.Pending()
Pending(h) == Cardinality(h.queue) + Cardinality(h.requested)

NewHealer(store) ==
  [codeTasks |-> {}, queue |-> {h \in HealWant : store[h] = Nil}, requested |-> {},
   membatch |-> {}]

\* json.Marshal and json.Unmarshal of a counter: its decimal digits.
RECURSIVE Marshal(_)
Marshal(n) == IF n < 10 THEN <<n>> ELSE Append(Marshal(n \div 10), n % 10)

RECURSIVE Unmarshal(_)
Unmarshal(d) ==
  IF d = <<>> THEN 0 ELSE 10 * Unmarshal(SubSeq(d, 1, Len(d) - 1)) + d[Len(d)]

\* A variant of StatusOf that leaves the heal counters out of the record.
StatusOfNoHeal(ts, c1, c2, c3, c4) ==
  [Tasks |-> ts, BytecodeSynced |-> Marshal(c1), BytecodeBytes |-> Marshal(c2),
   BytecodeHealSynced |-> Marshal(0), BytecodeHealBytes |-> Marshal(0)]

\* saveSyncStatus: the progress record as it is written.
StatusOf(ts, c1, c2, c3, c4) ==
  [Tasks |-> ts, BytecodeSynced |-> Marshal(c1), BytecodeBytes |-> Marshal(c2),
   BytecodeHealSynced |-> Marshal(c3), BytecodeHealBytes |-> Marshal(c4)]

TaskSeq == [t \in TaskIds |-> t]

(* ------------------------------- Init --------------------------------- *)
\* NewSyncer, over a database that holds the progress record of an earlier
\* run, with its account tasks in their bytecode phase.
InitSyncer ==
  /\ peers = {} /\ statelessPeers = {}
  /\ bytecodeIdlers = {} /\ bytecodeHealIdlers = {}
  /\ bytecodeReqs = {} /\ bytecodeHealReqs = {}
  /\ reqs = <<>>
  /\ tasks = <<>>
  /\ taskHeap = [t \in TaskIds |-> LoadTask(t, [h \in HashSpace |-> 1])]
  /\ healer = [codeTasks |-> {}, queue |-> {}, requested |-> {}, membatch |-> {}]
  /\ snapped = FALSE
  /\ update = FALSE
  /\ peerJoin = 0 /\ peerDrop = <<>>
  /\ cancel = <<>>
  /\ loop = "idle" /\ dropSnap = {}
  /\ cycle = 0
  /\ syncErr = "none"
  /\ codeStore = [h \in HashSpace |-> Nil]
  /\ status = StatusOf(TaskSeq, 0, 0, 0, 0)
  /\ bytecodeSynced = 0 /\ bytecodeBytes = 0
  /\ bytecodeHealSynced = 0 /\ bytecodeHealBytes = 0
  /\ persisted = {} /\ workSet = {}
  /\ submitted = {}

Init == InitSyncer /\ val = NoVal

(* ----------------------------- registry ------------------------------- *)
\* Register past its check: a new id joins the peer set and both idle sets;
\* peerJoin.Send.
Registers(p) ==
  /\ p \notin peers
  /\ loop # "idle" => peerJoin < MaxEvents
  /\ peers' = peers \cup {p}
  /\ bytecodeIdlers' = bytecodeIdlers \cup {p}
  /\ bytecodeHealIdlers' = bytecodeHealIdlers \cup {p}
  /\ peerJoin' = IF loop # "idle" THEN peerJoin + 1 ELSE peerJoin
  /\ UNCHANGED <<statelessPeers, ledgers, sources, update, peerDrop, cancel,
                 loop, dropSnap, cycle, syncErr, database, counters, history>>

\* Unregister past its check: the id leaves the peer set, the stateless set
\* and both idle sets; peerDrop.Send.
Unregisters(p) ==
  /\ p \in peers
  /\ loop # "idle" => Len(peerDrop) < MaxEvents
  /\ peers' = peers \ {p}
  /\ statelessPeers' = statelessPeers \ {p}
  /\ bytecodeIdlers' = bytecodeIdlers \ {p}
  /\ bytecodeHealIdlers' = bytecodeHealIdlers \ {p}
  /\ peerDrop' = IF loop # "idle" THEN Append(peerDrop, p) ELSE peerDrop
  /\ UNCHANGED <<ledgers, sources, update, peerJoin, cancel, loop, dropSnap,
                 cycle, syncErr, database, counters, history>>

\* Register and Unregister as the syncer sees them: a call that fails its
\* check returns before it touches anything.
Register(p) == Registers(p) /\ UNCHANGED val
Unregister(p) == Unregisters(p) /\ UNCHANGED val

\* The call returns err.
Returned(op, p, err) == val' = [val EXCEPT !.op = op, !.id = p, !.err = err]

RegistryUntouched ==
  UNCHANGED <<registry, ledgers, sources, channels, cancel, loop, dropSnap,
              cycle, syncErr, database, counters, history>>

\* A variant of CallRegister whose failing path still notifies the loop.
CallRegisterNotifies(p) ==
  IF p \in peers
  THEN /\ Returned("Register", p, "already registered")
       /\ loop # "idle" => peerJoin < MaxEvents
       /\ peerJoin' = IF loop # "idle" THEN peerJoin + 1 ELSE peerJoin
       /\ UNCHANGED <<registry, ledgers, sources, update, peerDrop, cancel, loop,
                      dropSnap, cycle, syncErr, database, counters, history>>
  ELSE Registers(p) /\ Returned("Register", p, "nil")

\* Register with what it returns.
CallRegister(p) ==
  IF p \in peers
  THEN Returned("Register", p, "already registered") /\ RegistryUntouched
  ELSE Registers(p) /\ Returned("Register", p, "nil")

\* Unregister with what it returns.
CallUnregister(p) ==
  IF p \notin peers
  THEN Returned("Unregister", p, "not registered") /\ RegistryUntouched
  ELSE Unregisters(p) /\ Returned("Unregister", p, "nil")

(* ------------------------ the loop thread's state --------------------- *)
\* What the thread of Sync reads and writes in one iteration of its loop, as
\* one record: the operations of the loop are functions over it.
LoopState ==
  [reqs |-> reqs, bytecodeReqs |-> bytecodeReqs, bytecodeHealReqs |-> bytecodeHealReqs,
   bytecodeIdlers |-> bytecodeIdlers, bytecodeHealIdlers |-> bytecodeHealIdlers,
   taskHeap |-> taskHeap, healer |-> healer, codeStore |-> codeStore,
   bytecodeSynced |-> bytecodeSynced, bytecodeBytes |-> bytecodeBytes,
   bytecodeHealSynced |-> bytecodeHealSynced, bytecodeHealBytes |-> bytecodeHealBytes,
   persisted |-> persisted, submitted |-> submitted, workSet |-> workSet]

Commit(st) ==
  /\ reqs' = st.reqs
  /\ bytecodeReqs' = st.bytecodeReqs
  /\ bytecodeHealReqs' = st.bytecodeHealReqs
  /\ bytecodeIdlers' = st.bytecodeIdlers
  /\ bytecodeHealIdlers' = st.bytecodeHealIdlers
  /\ taskHeap' = st.taskHeap
  /\ healer' = st.healer
  /\ codeStore' = st.codeStore
  /\ bytecodeSynced' = st.bytecodeSynced
  /\ bytecodeBytes' = st.bytecodeBytes
  /\ bytecodeHealSynced' = st.bytecodeHealSynced
  /\ bytecodeHealBytes' = st.bytecodeHealBytes
  /\ persisted' = st.persisted
  /\ submitted' = st.submitted
  /\ workSet' = st.workSet

(* ---------------------------- assignment ------------------------------ *)
\* A request object as assignBytecodeTasks / assignBytecodeHealTasks build
\* it, with its timer armed.  hnd is the position of the reply handler that
\* took the request out of the ledger, from the peer whose reply it is,
\* reply what it found the reply to be (empty, bad, good) and codes the
\* response it built; consumed records that the loop processed the response.
NewReq(p, isHeal, hs, t, cyc) ==
  [peer |-> p, heal |-> isHeal, hashes |-> hs, task |-> t, cyc |-> cyc,
   stale |-> FALSE, timeout |-> "armed", hnd |-> "none", from |-> 0,
   reply |-> "none", codes |-> <<>>, consumed |-> FALSE]

\* A variant of SortedIdlers that keeps the stateless peers.
SortedIdlersWithStateless(idlers, caps) ==
  {o \in Perms(idlers) :
     \A i \in 1..(Len(o) - 1) : caps[o[i]] >= caps[o[i + 1]]}

\* A variant of SortedIdlers that leaves the idle peers in any order.
SortedIdlersAnyOrder(idlers, caps) == Perms(idlers \ statelessPeers)

\* sort.Sort(sort.Reverse(idlers)): the idle peers that are not stateless,
\* by capacity, largest first; equal capacities come in any order.
SortedIdlers(idlers, caps) ==
  {o \in Perms(idlers \ statelessPeers) :
     \A i \in 1..(Len(o) - 1) : caps[o[i]] >= caps[o[i + 1]]}

\* The manifest: the map is ranged over in some order (iter) and its hashes
\* are removed and appended until the manifest holds cap of them.
TakeHashes(pending, iter, cap) ==
  LET inOrder == SelectSeq(iter, LAMBDA h : h \in pending)
      n == IF cap < 1 THEN 1 ELSE cap
  IN SubSeq(inOrder, 1, Min(Len(inOrder), n))

CapOf(c) == IF c > maxCodeRequestCount THEN maxCodeRequestCount ELSE c

\* assignBytecodeTasks, the loop over s.tasks (ts) with the sorted idlers.
RECURSIVE assignBytecodeTasks(_, _, _, _, _, _)
assignBytecodeTasks(ts, idlers, st, caps, iter, cyc) ==
  IF ts = <<>> THEN st
  ELSE LET t == Head(ts)
           tk == st.taskHeap[t]
       IN IF ~tk.res \/ tk.codeTasks = {}
          THEN assignBytecodeTasks(Tail(ts), idlers, st, caps, iter, cyc)
          ELSE IF idlers = <<>> THEN st
          ELSE LET idle == Head(idlers)
                   hashes == TakeHashes(tk.codeTasks, iter[t], CapOf(caps[idle]))
                   reqid == Len(st.reqs) + 1
                   st2 == [st EXCEPT
                             !.reqs = Append(@, NewReq(idle, FALSE, hashes, t, cyc)),
                             !.bytecodeReqs = @ \cup {reqid},
                             !.bytecodeIdlers = @ \ {idle},
                             !.taskHeap[t].codeTasks = @ \ Range(hashes)]
               IN assignBytecodeTasks(Tail(ts), Tail(idlers), st2, caps, iter, cyc)

\* healer.scheduler.Missing fills the healer's queue when it is short; the
\* codes it hands out join the work of the cycle.
FillHealer(st) ==
  IF Cardinality(st.healer.codeTasks) < maxTrieRequestCount + maxCodeRequestCount
  THEN [st EXCEPT !.healer.codeTasks = @ \cup st.healer.queue,
                  !.healer.requested = @ \cup st.healer.queue,
                  !.healer.queue = {},
                  !.workSet = @ \cup st.healer.queue]
  ELSE st

\* assignBytecodeHealTasks, the loop over the healer's pending codes with
\* the sorted idlers.
RECURSIVE assignBytecodeHealTasks(_, _, _, _, _)
assignBytecodeHealTasks(idlers, st, caps, iter, cyc) ==
  IF ~(st.healer.codeTasks # {} \/ Pending(st.healer) > 0) THEN st
  ELSE LET st1 == FillHealer(st)
       IN IF st1.healer.codeTasks = {} THEN st1
          ELSE IF idlers = <<>> THEN st1
          ELSE LET idle == Head(idlers)
                   hashes == TakeHashes(st1.healer.codeTasks, iter, CapOf(caps[idle]))
                   reqid == Len(st1.reqs) + 1
                   st2 == [st1 EXCEPT
                             !.reqs = Append(@, NewReq(idle, TRUE, hashes, 0, cyc)),
                             !.bytecodeHealReqs = @ \cup {reqid},
                             !.bytecodeHealIdlers = @ \ {idle},
                             !.healer.codeTasks = @ \ Range(hashes)]
               IN assignBytecodeHealTasks(Tail(idlers), st2, caps, iter, cyc)

(* ----------------------------- validator ------------------------------ *)
\* A variant of NextMatch that does not move on over the manifest.
NextMatchNoSkip(hashes, h, j) ==
  IF j <= Len(hashes) /\ hashes[j] # h THEN Len(hashes) + 1 ELSE j

\* The first manifest position at or after j that holds hash h, or
\* Len(hashes) + 1: the inner loop of the validator.
RECURSIVE NextMatch(_, _, _)
NextMatch(hashes, h, j) ==
  IF j <= Len(hashes) /\ hashes[j] # h THEN NextMatch(hashes, h, j + 1) ELSE j

\* A variant of validateByteCodes that stores blob i at position i unhashed.
validateByteCodesUnhashed(hashes, bytecodes, i, j, codes) ==
  IF Len(bytecodes) <= Len(hashes)
  THEN [ok |-> TRUE,
        codes |-> [k \in 1..Len(hashes) |->
                     IF k <= Len(bytecodes) THEN bytecodes[k] ELSE Nil]]
  ELSE [ok |-> FALSE, codes |-> codes]

\* onByteCodes, the cross reference of the reply with the manifest: blob i is
\* hashed and stored at the next position of the manifest that asks for it;
\* a blob no later position asks for fails the reply.
RECURSIVE validateByteCodes(_, _, _, _, _)
validateByteCodes(hashes, bytecodes, i, j, codes) ==
  IF i > Len(bytecodes) THEN [ok |-> TRUE, codes |-> codes]
  ELSE LET k == NextMatch(hashes, Keccak(bytecodes[i]), j)
       IN IF k <= Len(hashes)
          THEN validateByteCodes(hashes, bytecodes, i + 1, k + 1,
                                 [codes EXCEPT ![k] = bytecodes[i]])
          ELSE [ok |-> FALSE, codes |-> codes]

\* onHealByteCodes, the same cross reference in the heal handler.
RECURSIVE validateHealByteCodes(_, _, _, _, _)
validateHealByteCodes(hashes, bytecodes, i, j, codes) ==
  IF i > Len(bytecodes) THEN [ok |-> TRUE, codes |-> codes]
  ELSE LET k == NextMatch(hashes, Keccak(bytecodes[i]), j)
       IN IF k <= Len(hashes)
          THEN validateHealByteCodes(hashes, bytecodes, i + 1, k + 1,
                                     [codes EXCEPT ![k] = bytecodes[i]])
          ELSE [ok |-> FALSE, codes |-> codes]

NilCodes(hashes) == [i \in 1..Len(hashes) |-> Nil]

(* ------------------------------- revert ------------------------------- *)
\* A variant of revertBytecodeRequest that leaves the hashes out.
revertBytecodeRequestNoRequeue(r, st) ==
  IF st.reqs[r].stale THEN st
  ELSE [st EXCEPT !.reqs[r].stale = TRUE,
                  !.reqs[r].timeout = IF @ = "armed" THEN "off" ELSE @,
                  !.bytecodeReqs = @ \ {r}]

\* A variant of revertBytecodeHealRequest that leaves the hashes out.
revertBytecodeHealRequestNoRequeue(r, st) ==
  IF st.reqs[r].stale THEN st
  ELSE [st EXCEPT !.reqs[r].stale = TRUE,
                  !.reqs[r].timeout = IF @ = "armed" THEN "off" ELSE @,
                  !.bytecodeHealReqs = @ \ {r}]

\* A variant of revertBytecodeRequest that does not look at the stale channel.
revertBytecodeRequestAgain(r, st) ==
  [st EXCEPT !.reqs[r].stale = TRUE,
             !.reqs[r].timeout = IF @ = "armed" THEN "off" ELSE @,
             !.bytecodeReqs = @ \ {r},
             !.taskHeap[st.reqs[r].task].codeTasks = @ \cup Range(st.reqs[r].hashes)]

\* A variant of revertBytecodeRequest that flags the peer of the request idle.
revertBytecodeRequestFlagsIdle(r, st) ==
  IF st.reqs[r].stale THEN st
  ELSE [st EXCEPT !.reqs[r].stale = TRUE,
                  !.reqs[r].timeout = IF @ = "armed" THEN "off" ELSE @,
                  !.bytecodeReqs = @ \ {r},
                  !.bytecodeIdlers = @ \cup {st.reqs[r].peer},
                  !.taskHeap[st.reqs[r].task].codeTasks = @ \cup Range(st.reqs[r].hashes)]

\* revertBytecodeRequest: nothing for a request whose stale channel is
\* closed; otherwise the channel is closed, the request leaves the ledger,
\* its timer is stopped and its hashes go back to the task's codeTasks.
revertBytecodeRequest(r, st) ==
  IF st.reqs[r].stale THEN st
  ELSE [st EXCEPT !.reqs[r].stale = TRUE,
                  !.reqs[r].timeout = IF @ = "armed" THEN "off" ELSE @,
                  !.bytecodeReqs = @ \ {r},
                  !.taskHeap[st.reqs[r].task].codeTasks = @ \cup Range(st.reqs[r].hashes)]

\* revertBytecodeHealRequest: the same over the heal ledger and the healer.
revertBytecodeHealRequest(r, st) ==
  IF st.reqs[r].stale THEN st
  ELSE [st EXCEPT !.reqs[r].stale = TRUE,
                  !.reqs[r].timeout = IF @ = "armed" THEN "off" ELSE @,
                  !.bytecodeHealReqs = @ \ {r},
                  !.healer.codeTasks = @ \cup Range(st.reqs[r].hashes)]

(* ----------------------------- persistence ---------------------------- *)
Delivered(res) == {i \in 1..Len(res.hashes) : res.codes[i] # Nil}
Missed(res) == {i \in 1..Len(res.hashes) : res.codes[i] = Nil}

\* batch.ValueSize() of the batch the codes were written to.
BatchValueSize(res) == SumLen(res.codes)

\* The code entries after the batch with the codes at positions idx is written.
StoreAfter(store, res, idx) ==
  [h \in HashSpace |->
     IF \E i \in idx : res.hashes[i] = h
     THEN res.codes[CHOOSE i \in idx : res.hashes[i] = h]
     ELSE store[h]]

Pairs(res, idx) == {<<res.hashes[i], res.codes[i]>> : i \in idx}

\* A variant of processBytecodeResponseWrite that drops the missing codes.
processBytecodeResponseDropMissing(res, st) ==
  LET got == {res.hashes[i] : i \in Delivered(res)}
  IN [st EXCEPT !.taskHeap[res.task].needCode = @ \ got,
                !.codeStore = StoreAfter(@, res, Delivered(res)),
                !.persisted = @ \cup got,
                !.submitted = @ \cup Pairs(res, Delivered(res))]

\* processBytecodeResponse up to the return of batch.Write: a missing code
\* goes back to the task's codeTasks, a delivered one is no longer needed and
\* is put into the batch; the batch is written.
processBytecodeResponseWrite(res, st) ==
  LET got == {res.hashes[i] : i \in Delivered(res)}
      miss == {res.hashes[i] : i \in Missed(res)}
  IN [st EXCEPT !.taskHeap[res.task].codeTasks = @ \cup miss,
                !.taskHeap[res.task].needCode = @ \ got,
                !.codeStore = StoreAfter(@, res, Delivered(res)),
                !.persisted = @ \cup got,
                !.submitted = @ \cup Pairs(res, Delivered(res))]

\* A variant of processBytecodeResponseCount that counts every manifest entry.
processBytecodeResponseCountAll(res, st) ==
  [st EXCEPT !.taskHeap[res.task] = forwardAccountTask(@),
             !.bytecodeSynced = @ + Len(res.hashes),
             !.bytecodeBytes = @ + BatchValueSize(res)]

\* processBytecodeResponse after batch.Write returned: the counters grow by
\* the codes and the bytes of the batch, a task with nothing pending is
\* forwarded.
processBytecodeResponseCount(res, st) ==
  [st EXCEPT !.taskHeap[res.task] = forwardAccountTask(@),
             !.bytecodeSynced = @ + Cardinality(Delivered(res)),
             !.bytecodeBytes = @ + BatchValueSize(res)]

\* processBytecodeHealResponse up to the end of its loop over the hashes: a
\* missing code goes back to the healer's codeTasks, a delivered one is
\* counted and handed to scheduler.Process, which keeps the codes it asked
\* for in its memory batch.
processBytecodeHealResponseCount(res, st) ==
  LET miss == {res.hashes[i] : i \in Missed(res)}
      okIdx == {i \in Delivered(res) : res.hashes[i] \in st.healer.requested}
      okSet == {res.hashes[i] : i \in okIdx}
  IN [st EXCEPT !.healer.codeTasks = @ \cup miss,
                !.healer.requested = @ \ okSet,
                !.healer.membatch = @ \cup Pairs(res, okIdx),
                !.bytecodeHealSynced = @ + Cardinality(Delivered(res)),
                !.bytecodeHealBytes = @ + SumLen(res.codes),
                !.submitted = @ \cup Pairs(res, Delivered(res))]

\* processBytecodeHealResponse from scheduler.Commit on: the memory batch of
\* the scheduler is committed to a database batch and the batch is written.
processBytecodeHealResponseCommit(st) ==
  [st EXCEPT !.healer.membatch = {},
             !.codeStore = [h \in HashSpace |->
                              IF \E pr \in st.healer.membatch : pr[1] = h
                              THEN (CHOOSE pr \in st.healer.membatch : pr[1] = h)[2]
                              ELSE @[h]],
             !.persisted = @ \cup {pr[1] : pr \in st.healer.membatch}]

(* --------------------------- Sync: entry, exit ------------------------ *)
\* Sync up to the start of the loop: a new healer, the stateless marks
\* reverted, loadSyncStatus, the early return, fresh channels.
SyncStart ==
  /\ loop = "idle"
  /\ cycle < MaxCycles
  /\ LET heap == [t \in TaskIds |-> LoadTask(t, codeStore)]
         ts == status.Tasks
         hl == NewHealer(codeStore)
         early == ts = <<>> /\ Pending(hl) = 0
     IN /\ healer' = hl
        /\ statelessPeers' = {}
        /\ tasks' = ts
        /\ taskHeap' = heap
        /\ snapped' = (ts = <<>>)
        /\ bytecodeSynced' = Unmarshal(status.BytecodeSynced)
        /\ bytecodeBytes' = Unmarshal(status.BytecodeBytes)
        /\ bytecodeHealSynced' = Unmarshal(status.BytecodeHealSynced)
        /\ bytecodeHealBytes' = Unmarshal(status.BytecodeHealBytes)
        /\ loop' = IF early THEN "idle" ELSE "top"
        /\ syncErr' = IF early THEN "nil" ELSE "none"
        /\ workSet' = UNION {heap[ts[i]].codeTasks : i \in DOMAIN ts}
  /\ cycle' = cycle + 1
  /\ cancel' = Append(cancel, FALSE)
  /\ peerJoin' = 0 /\ peerDrop' = <<>>
  /\ dropSnap' = {}
  /\ persisted' = {}
  /\ UNCHANGED <<peers, bytecodeIdlers, bytecodeHealIdlers, ledgers, update,
                 codeStore, status, submitted, val>>

\* A variant of SyncReturns that leaves the ledgers as they are.
SyncReturnsKeepsLedgers(err, st, upd) ==
  LET fwd == [t \in TaskIds |-> forwardAccountTask(st.taskHeap[t])]
      left == cleanAccountTasks(tasks, fwd)
  IN /\ Commit([st EXCEPT !.taskHeap = fwd])
     /\ tasks' = left
     /\ snapped' = (snapped \/ left = <<>>)
     /\ status' = StatusOf(left, st.bytecodeSynced, st.bytecodeBytes,
                           st.bytecodeHealSynced, st.bytecodeHealBytes)
     /\ loop' = "idle"
     /\ syncErr' = err
     /\ dropSnap' = {}
     /\ update' = upd
     /\ peerJoin' = 0 /\ peerDrop' = <<>>
     /\ UNCHANGED <<peers, statelessPeers, cancel, cycle, val>>

\* Sync returns err: its deferred calls replace the ledgers by empty ones,
\* forward every task, drop the finished ones and save the progress record;
\* the subscriptions to peerJoin and peerDrop end.
SyncReturns(err, st, upd) ==
  LET fwd == [t \in TaskIds |-> forwardAccountTask(st.taskHeap[t])]
      left == cleanAccountTasks(tasks, fwd)
  IN /\ Commit([st EXCEPT !.bytecodeReqs = {}, !.bytecodeHealReqs = {},
                          !.taskHeap = fwd])
     /\ tasks' = left
     /\ snapped' = (snapped \/ left = <<>>)
     /\ status' = StatusOf(left, st.bytecodeSynced, st.bytecodeBytes,
                           st.bytecodeHealSynced, st.bytecodeHealBytes)
     /\ loop' = "idle"
     /\ syncErr' = err
     /\ dropSnap' = {}
     /\ update' = upd
     /\ peerJoin' = 0 /\ peerDrop' = <<>>
     /\ UNCHANGED <<peers, statelessPeers, cancel, cycle, val>>

(* ------------------------- the dispatcher loop ------------------------ *)
\* The capacities the rate tracker reports for the peers and the orders in
\* which the maps of pending hashes are ranged over; one of each is enough
\* for a pass with no idle peer, which reads neither.
PeerCaps(st) ==
  IF (st.bytecodeIdlers \cup st.bytecodeHealIdlers) \ statelessPeers = {}
  THEN {[p \in peers |-> 0]} ELSE [peers -> Caps]
MapOrders(st) ==
  IF (st.bytecodeIdlers \cup st.bytecodeHealIdlers) \ statelessPeers = {}
  THEN {[t \in TaskIds |-> [i \in Hashes |-> i]]} ELSE [TaskIds -> Perms(Hashes)]
HealOrders == Perms(HealWant)

\* A variant of LoopIterates that assigns the heal tasks in every pass.
LoopIteratesHealAlways(st, q) ==
  LET ts == cleanAccountTasks(tasks, st.taskHeap)
  IN IF ts = <<>> /\ Pending(st.healer) = 0
     THEN SyncReturns("nil", st, q.update)
     ELSE /\ \E caps \in PeerCaps(st), iter \in MapOrders(st), hiter \in HealOrders :
               \E so \in SortedIdlers(st.bytecodeIdlers, caps),
                  ho \in SortedIdlers(st.bytecodeHealIdlers, caps) :
                 LET st1 == IF so = <<>> THEN st
                            ELSE assignBytecodeTasks(ts, so, st, caps, iter, cycle)
                     st2 == IF ho = <<>> THEN st1
                            ELSE assignBytecodeHealTasks(ho, st1, caps, hiter, cycle)
                 IN IF Len(st2.reqs) <= MaxReqs
                    THEN Commit(st2) /\ loop' = "select"
                    ELSE Commit(st) /\ loop' = "halted"
          /\ tasks' = ts
          /\ snapped' = (snapped \/ ts = <<>>)
          /\ dropSnap' = {}
          /\ update' = q.update /\ peerJoin' = q.peerJoin /\ peerDrop' = q.peerDrop
          /\ UNCHANGED <<syncErr, status>>
          /\ UNCHANGED <<peers, statelessPeers, cancel, cycle, val>>

\* The loop from the end of one select to the next: the finished tasks are
\* cleaned (the sync phase is over when none is left), Sync returns nil when
\* nothing is pending, the sync tasks are assigned and, when no task is
\* left, the heal tasks.  st is the state the handled event left, q the
\* channels after the receive.  A pass that would allocate more than MaxReqs
\* requests is not taken: the loop halts before it.
LoopIterates(st, q) ==
  LET ts == cleanAccountTasks(tasks, st.taskHeap)
  IN IF ts = <<>> /\ Pending(st.healer) = 0
     THEN SyncReturns("nil", st, q.update)
     ELSE /\ \E caps \in PeerCaps(st), iter \in MapOrders(st), hiter \in HealOrders :
               \E so \in SortedIdlers(st.bytecodeIdlers, caps),
                  ho \in SortedIdlers(st.bytecodeHealIdlers, caps) :
                 LET st1 == IF so = <<>> THEN st
                            ELSE assignBytecodeTasks(ts, so, st, caps, iter, cycle)
                     st2 == IF ts # <<>> \/ ho = <<>> THEN st1
                            ELSE assignBytecodeHealTasks(ho, st1, caps, hiter, cycle)
                 IN IF Len(st2.reqs) <= MaxReqs
                    THEN Commit(st2) /\ loop' = "select"
                    ELSE Commit(st) /\ loop' = "halted"
          /\ tasks' = ts
          /\ snapped' = (snapped \/ ts = <<>>)
          /\ dropSnap' = {}
          /\ update' = q.update /\ peerJoin' = q.peerJoin /\ peerDrop' = q.peerDrop
          /\ UNCHANGED <<syncErr, status>>
          /\ UNCHANGED <<peers, statelessPeers, cancel, cycle, val>>

Chans == [update |-> update, peerJoin |-> peerJoin, peerDrop |-> peerDrop]

\* The first iteration of the loop.
LoopStarts ==
  /\ loop = "top"
  /\ LoopIterates(LoopState, Chans)

\* case <-s.update
RecvUpdate ==
  /\ loop = "select" /\ update
  /\ LoopIterates(LoopState, [Chans EXCEPT !.update = FALSE])

\* case <-peerJoin
RecvPeerJoin ==
  /\ loop = "select" /\ peerJoin > 0
  /\ LoopIterates(LoopState, [Chans EXCEPT !.peerJoin = @ - 1])

\* revertRequests up to the release of the lock: the requests of the peer
\* are gathered from both ledgers.
GatherRequests(id) == {r \in bytecodeReqs \cup bytecodeHealReqs : reqs[r].peer = id}

\* case id := <-peerDrop, with no request of the peer to revert.
RecvPeerDropNone ==
  /\ loop = "select" /\ peerDrop # <<>>
  /\ GatherRequests(Head(peerDrop)) = {}
  /\ LoopIterates(LoopState, [Chans EXCEPT !.peerDrop = Tail(@)])

\* case id := <-peerDrop, with requests of the peer gathered.
RecvPeerDrop ==
  /\ loop = "select" /\ peerDrop # <<>>
  /\ GatherRequests(Head(peerDrop)) # {}
  /\ dropSnap' = GatherRequests(Head(peerDrop))
  /\ loop' = "reverting"
  /\ peerDrop' = Tail(peerDrop)
  /\ UNCHANGED <<registry, ledgers, sources, update, peerJoin, cancel, cycle,
                 syncErr, database, counters, history, val>>

RevertEither(r, st) ==
  IF st.reqs[r].heal THEN revertBytecodeHealRequest(r, st)
  ELSE revertBytecodeRequest(r, st)

\* revertRequests, a gathered request is reverted and more are left: the
\* bytecode requests go first, then the heal requests.
RevertGathered(r) ==
  /\ loop = "reverting" /\ r \in dropSnap /\ dropSnap # {r}
  /\ reqs[r].heal => \A q \in dropSnap : reqs[q].heal
  /\ Commit(RevertEither(r, LoopState))
  /\ dropSnap' = dropSnap \ {r}
  /\ UNCHANGED <<peers, statelessPeers, tasks, snapped, channels, cancel, loop,
                 cycle, syncErr, status, val>>

\* revertRequests, the last gathered request is reverted.
RevertLastGathered(r) ==
  /\ loop = "reverting" /\ dropSnap = {r}
  /\ LoopIterates(RevertEither(r, LoopState), Chans)

\* case <-cancel: Sync returns ErrCancelled.
RecvCancel ==
  /\ loop = "select" /\ cancel[cycle]
  /\ SyncReturns("cancelled", LoopState, update)

InCycle(r) == r \in 1..Len(reqs) /\ reqs[r].cyc = cycle

\* A thread that sends request r on req.revert in
\* scheduleRevertBytecode(Heal)Request: the timer callback once the timer
\* fired, the reply handler after a refusal or a failed validation, and the
\* goroutine of the request, whose peer.RequestByteCodes can return an error
\* at any time.  The goroutine touches nothing before its send, and the
\* revert of a request whose stale channel is closed changes nothing: its
\* send counts while the channel is open.
Waits(rq, who) ==
  \/ who = "timeout" /\ rq.timeout = "fired"
  \/ who = "wire" /\ ~rq.stale
  \/ who = "hnd" /\ rq.hnd = "revert"

\* The thread after its select in scheduleRevertBytecode(Heal)Request.
Released(rq, who) ==
  CASE who = "timeout" -> [rq EXCEPT !.timeout = "off"]
    [] who = "wire" -> rq
    [] who = "hnd" -> [rq EXCEPT !.hnd = "done"]

\* A variant of RecvReqFail that returns the failure to the caller of Sync.
RecvReqFailEscapes(r, who) ==
  /\ loop = "select" /\ InCycle(r) /\ ~reqs[r].heal
  /\ Waits(reqs[r], who)
  /\ SyncReturns("failed", [LoopState EXCEPT !.reqs[r] = Released(@, who)], update)

\* case req := <-bytecodeReqFails: the send of a thread is taken and the
\* request reverted.
RecvReqFail(r, who) ==
  /\ loop = "select" /\ InCycle(r) /\ ~reqs[r].heal
  /\ Waits(reqs[r], who)
  /\ LoopIterates(revertBytecodeRequest(r,
        [LoopState EXCEPT !.reqs[r] = Released(@, who)]), Chans)

\* case req := <-bytecodeHealReqFails
RecvHealReqFail(r, who) ==
  /\ loop = "select" /\ InCycle(r) /\ reqs[r].heal
  /\ Waits(reqs[r], who)
  /\ LoopIterates(revertBytecodeHealRequest(r,
        [LoopState EXCEPT !.reqs[r] = Released(@, who)]), Chans)

\* case res := <-bytecodeResps: the response a handler delivers is taken and
\* processBytecodeResponse runs until its batch is written.
RecvResp(r) ==
  /\ loop = "select" /\ InCycle(r) /\ ~reqs[r].heal
  /\ reqs[r].hnd = "deliver"
  /\ Commit(processBytecodeResponseWrite(reqs[r],
        [LoopState EXCEPT !.reqs[r].hnd = "processing"]))
  /\ loop' = "counting"
  /\ UNCHANGED <<peers, statelessPeers, tasks, snapped, channels, cancel,
                 dropSnap, cycle, syncErr, status, val>>

\* processBytecodeResponse goes on after the write, and the loop iterates.
RespCounted(r) ==
  /\ loop = "counting" /\ InCycle(r) /\ reqs[r].hnd = "processing"
  /\ LoopIterates(processBytecodeResponseCount(reqs[r],
        [LoopState EXCEPT !.reqs[r].hnd = "done", !.reqs[r].consumed = TRUE,
                         !.reqs[r].codes = <<>>]), Chans)

\* case res := <-bytecodeHealResps: the response is taken and
\* processBytecodeHealResponse runs until the scheduler has every code.
RecvHealResp(r) ==
  /\ loop = "select" /\ InCycle(r) /\ reqs[r].heal
  /\ reqs[r].hnd = "deliver"
  /\ Commit(processBytecodeHealResponseCount(reqs[r],
        [LoopState EXCEPT !.reqs[r].hnd = "processing", !.reqs[r].codes = <<>>]))
  /\ loop' = "committing"
  /\ UNCHANGED <<peers, statelessPeers, tasks, snapped, channels, cancel,
                 dropSnap, cycle, syncErr, status, val>>

\* processBytecodeHealResponse goes on with the commit and the write, and
\* the loop iterates.
HealRespCommitted(r) ==
  /\ loop = "committing" /\ InCycle(r) /\ reqs[r].hnd = "processing"
  /\ LoopIterates(processBytecodeHealResponseCommit(
        [LoopState EXCEPT !.reqs[r].hnd = "done", !.reqs[r].consumed = TRUE]), Chans)

(* --------------------------- off-loop threads ------------------------- *)
\* The caller of Sync closes the cancel channel of the running cycle.
Cancel ==
  /\ loop # "idle" /\ ~cancel[cycle]
  /\ cancel' = [cancel EXCEPT ![cycle] = TRUE]
  /\ UNCHANGED <<registry, ledgers, sources, channels, loop, dropSnap, cycle,
                 syncErr, database, counters, history, val>>

OnlyReqs ==
  UNCHANGED <<registry, bytecodeReqs, bytecodeHealReqs, sources, channels, cancel,
              loop, dropSnap, cycle, syncErr, database, counters, history, val>>

\* The timer of request r fires: its callback runs up to the send in
\* scheduleRevertBytecode(Heal)Request.
TimeoutFires(r) ==
  /\ r \in 1..Len(reqs) /\ reqs[r].timeout = "armed"
  /\ reqs' = [reqs EXCEPT ![r].timeout = "fired"]
  /\ OnlyReqs

\* scheduleRevertBytecode(Heal)Request, the cases <-req.cancel and
\* <-req.stale: the thread gives up its send.
ScheduleRevertGivesUp(r, who) ==
  /\ r \in 1..Len(reqs) /\ Waits(reqs[r], who) /\ who # "wire"
  /\ cancel[reqs[r].cyc] \/ reqs[r].stale
  /\ reqs' = [reqs EXCEPT ![r] = Released(@, who)]
  /\ OnlyReqs

\* The final select of a reply handler, the cases <-req.cancel and
\* <-req.stale: the validated response is dropped.
DeliverGivesUp(r) ==
  /\ r \in 1..Len(reqs) /\ reqs[r].hnd = "deliver"
  /\ cancel[reqs[r].cyc] \/ reqs[r].stale
  /\ reqs' = [reqs EXCEPT ![r].hnd = "done", ![r].codes = <<>>]
  /\ OnlyReqs

(* ---------------------------- reply handlers -------------------------- *)
\* A variant of AfterReply that delivers what failed the validation.
AfterReplyDeliverBad(rq, bytecodes, v) ==
  IF bytecodes = <<>>
  THEN [rq EXCEPT !.timeout = "off", !.hnd = "revert", !.reply = "empty"]
  ELSE [rq EXCEPT !.timeout = "off", !.hnd = "deliver",
                  !.reply = IF v.ok THEN "good" ELSE "bad", !.codes = v.codes]

\* The request after the handler's locked section and validation: the timer
\* is stopped; an empty reply is a refusal and a reply that fails validation
\* an error, both on their way to schedule the revert; a validated reply is
\* on its way to the loop.
AfterReply(rq, bytecodes, v) ==
  IF bytecodes = <<>>
  THEN [rq EXCEPT !.timeout = "off", !.hnd = "revert", !.reply = "empty"]
  ELSE IF v.ok
       THEN [rq EXCEPT !.timeout = "off", !.hnd = "deliver", !.reply = "good",
                       !.codes = v.codes]
       ELSE [rq EXCEPT !.timeout = "off", !.hnd = "revert", !.reply = "bad"]

\* A variant of onByteCodes that does not look at what timeout.Stop returns.
onByteCodesAfterTimeout(p, id, bytecodes) ==
  /\ bytecodeIdlers' = IF p \in peers THEN bytecodeIdlers \cup {p} ELSE bytecodeIdlers
  /\ update' = TRUE
  /\ IF id \notin bytecodeReqs
     THEN UNCHANGED <<bytecodeReqs, reqs, statelessPeers>>
     ELSE /\ bytecodeReqs' = bytecodeReqs \ {id}
          /\ reqs' = [reqs EXCEPT ![id] = AfterReply([@ EXCEPT !.from = p], bytecodes,
                        validateByteCodes(reqs[id].hashes, bytecodes, 1, 1,
                                          NilCodes(reqs[id].hashes)))]
          /\ statelessPeers' = IF bytecodes = <<>>
                               THEN statelessPeers \cup {p} ELSE statelessPeers
  /\ UNCHANGED <<bytecodeHealIdlers, bytecodeHealReqs>>

\* A variant of onByteCodes that takes a reply to an unknown request for a
\* refusal of the peer.
onByteCodesMarkUnknown(p, id, bytecodes) ==
  /\ bytecodeIdlers' = IF p \in peers THEN bytecodeIdlers \cup {p} ELSE bytecodeIdlers
  /\ update' = TRUE
  /\ IF id \notin bytecodeReqs
     THEN /\ UNCHANGED <<bytecodeReqs, reqs>>
          /\ statelessPeers' = statelessPeers \cup {p}
     ELSE /\ bytecodeReqs' = bytecodeReqs \ {id}
          /\ IF reqs[id].timeout # "armed"
             THEN UNCHANGED <<reqs, statelessPeers>>
             ELSE /\ reqs' = [reqs EXCEPT ![id] = AfterReply([@ EXCEPT !.from = p], bytecodes,
                                validateByteCodes(reqs[id].hashes, bytecodes, 1, 1,
                                                  NilCodes(reqs[id].hashes)))]
                  /\ statelessPeers' = IF bytecodes = <<>>
                                       THEN statelessPeers \cup {p} ELSE statelessPeers
  /\ UNCHANGED <<bytecodeHealIdlers, bytecodeHealReqs>>

\* onByteCodes: the peer, if known, is idle again and update is signalled; a
\* request id that is not in the ledger ends the handler; the request leaves
\* the ledger; a timer that already fired ends the handler; then as above.
onByteCodes(p, id, bytecodes) ==
  /\ bytecodeIdlers' = IF p \in peers THEN bytecodeIdlers \cup {p} ELSE bytecodeIdlers
  /\ update' = TRUE
  /\ IF id \notin bytecodeReqs
     THEN UNCHANGED <<bytecodeReqs, reqs, statelessPeers>>
     ELSE /\ bytecodeReqs' = bytecodeReqs \ {id}
          /\ IF reqs[id].timeout # "armed"
             THEN UNCHANGED <<reqs, statelessPeers>>
             ELSE /\ reqs' = [reqs EXCEPT ![id] = AfterReply([@ EXCEPT !.from = p], bytecodes,
                                validateByteCodes(reqs[id].hashes, bytecodes, 1, 1,
                                                  NilCodes(reqs[id].hashes)))]
                  /\ statelessPeers' = IF bytecodes = <<>>
                                       THEN statelessPeers \cup {p} ELSE statelessPeers
  /\ UNCHANGED <<bytecodeHealIdlers, bytecodeHealReqs>>

\* onHealByteCodes: the same over the heal idle set and the heal ledger.
onHealByteCodes(p, id, bytecodes) ==
  /\ bytecodeHealIdlers' = IF p \in peers THEN bytecodeHealIdlers \cup {p}
                           ELSE bytecodeHealIdlers
  /\ update' = TRUE
  /\ IF id \notin bytecodeHealReqs
     THEN UNCHANGED <<bytecodeHealReqs, reqs, statelessPeers>>
     ELSE /\ bytecodeHealReqs' = bytecodeHealReqs \ {id}
          /\ IF reqs[id].timeout # "armed"
             THEN UNCHANGED <<reqs, statelessPeers>>
             ELSE /\ reqs' = [reqs EXCEPT ![id] = AfterReply([@ EXCEPT !.from = p], bytecodes,
                                validateHealByteCodes(reqs[id].hashes, bytecodes, 1, 1,
                                                      NilCodes(reqs[id].hashes)))]
                  /\ statelessPeers' = IF bytecodes = <<>>
                                       THEN statelessPeers \cup {p} ELSE statelessPeers
  /\ UNCHANGED <<bytecodeIdlers, bytecodeReqs>>

\* A variant of OnByteCodes that reads the flag the other way round.
OnByteCodesMisrouted(p, id, bytecodes) ==
  /\ IF snapped THEN onByteCodes(p, id, bytecodes)
     ELSE onHealByteCodes(p, id, bytecodes)
  /\ UNCHANGED <<peers, sources, peerJoin, peerDrop, cancel, loop, dropSnap,
                 cycle, syncErr, database, counters, persisted, workSet,
                 submitted, val>>

\* OnByteCodes: a reply of peer p to request id, routed by s.snapped.
OnByteCodes(p, id, bytecodes) ==
  /\ IF ~snapped THEN onByteCodes(p, id, bytecodes)
     ELSE onHealByteCodes(p, id, bytecodes)
  /\ UNCHANGED <<peers, sources, peerJoin, peerDrop, cancel, loop, dropSnap,
                 cycle, syncErr, database, counters, persisted, workSet,
                 submitted, val>>

(* ------------------------------ the system ---------------------------- *)
ReqIds == 1..MaxReqs

\* The replies to tell apart: a handler that finds no request for the id, or
\* a fired timer, does not read the reply.
RepliesTo(id) ==
  IF id \in bytecodeReqs \cup bytecodeHealReqs /\ reqs[id].timeout = "armed"
  THEN Replies ELSE {<<>>}

Waiters == {"timeout", "wire", "hnd"}

\* The protocol handler hands a ByteCodes packet of peer p for request id to
\* the syncer.
PeerReplies(p, id) == \E bytecodes \in RepliesTo(id) : OnByteCodes(p, id, bytecodes)

Next ==
  \/ \E p \in Peers : Register(p)
  \/ \E p \in Peers : Unregister(p)
  \/ SyncStart
  \/ LoopStarts
  \/ RecvUpdate
  \/ RecvPeerJoin
  \/ RecvPeerDropNone
  \/ RecvPeerDrop
  \/ \E r \in ReqIds : RevertGathered(r)
  \/ \E r \in ReqIds : RevertLastGathered(r)
  \/ RecvCancel
  \/ \E r \in ReqIds, who \in Waiters : RecvReqFail(r, who)
  \/ \E r \in ReqIds, who \in Waiters : RecvHealReqFail(r, who)
  \/ \E r \in ReqIds : RecvResp(r)
  \/ \E r \in ReqIds : RespCounted(r)
  \/ \E r \in ReqIds : RecvHealResp(r)
  \/ \E r \in ReqIds : HealRespCommitted(r)
  \/ Cancel
  \/ \E r \in ReqIds : TimeoutFires(r)
  \/ \E r \in ReqIds, who \in Waiters : ScheduleRevertGivesUp(r, who)
  \/ \E r \in ReqIds : DeliverGivesUp(r)
  \/ \E p \in Peers, id \in ReqIds : PeerReplies(p, id)

Spec == Init /\ [][Next]_vars

(* ---------------------- the validator on its own ---------------------- *)
\* The manifests a request can carry (hashes of a map: no hash twice) and
\* the replies a peer can send to it, up to ValReply blobs of any kind.
Manifests == UNION {Perms(S) : S \in SUBSET (1..(NumHashes + 1))}
AnyReplies == SeqsUpTo(AllBlobs, ValReply)

InitValidate ==
  /\ InitSyncer
  /\ val \in {[NoVal EXCEPT !.hashes = m, !.bytecodes = b, !.heal = h] :
                m \in Manifests \ {<<>>}, b \in AnyReplies, h \in BOOLEAN}

\* The cross reference of onByteCodes applied to the drawn manifest and reply.
ValidateByteCodes ==
  /\ ~val.done /\ ~val.heal
  /\ LET v == validateByteCodes(val.hashes, val.bytecodes, 1, 1, NilCodes(val.hashes))
     IN val' = [val EXCEPT !.done = TRUE, !.ok = v.ok, !.codes = v.codes]
  /\ UNCHANGED <<registry, ledgers, sources, channels, cancel, loop, dropSnap,
                 cycle, syncErr, database, counters, history>>

\* The cross reference of onHealByteCodes applied to them.
ValidateHealByteCodes ==
  /\ ~val.done /\ val.heal
  /\ LET v == validateHealByteCodes(val.hashes, val.bytecodes, 1, 1, NilCodes(val.hashes))
     IN val' = [val EXCEPT !.done = TRUE, !.ok = v.ok, !.codes = v.codes]
  /\ UNCHANGED <<registry, ledgers, sources, channels, cancel, loop, dropSnap,
                 cycle, syncErr, database, counters, history>>

NextValidate == ValidateByteCodes \/ ValidateHealByteCodes

SpecValidate == InitValidate /\ [][NextValidate]_vars

(* ------------------------ the registry's callers ---------------------- *)
\* The peer ids the protocol handler registers and unregisters, in any
\* order and any number of times, before a Sync call and while it runs.
RegIds == 1..NumRegIds

NextRegistry ==
  \/ \E p \in RegIds : CallRegister(p)
  \/ \E p \in RegIds : CallUnregister(p)
  \/ SyncStart

SpecRegistry == Init /\ [][NextRegistry]_vars

(* ------------------- the syncer with a fair loop ---------------------- *)
\* The syncer with peers that stay: everything but Unregister and the
\* peerDrop case of the loop.
NextLive ==
  \/ \E p \in Peers : Register(p)
  \/ SyncStart
  \/ LoopStarts
  \/ RecvUpdate
  \/ RecvPeerJoin
  \/ RecvCancel
  \/ \E r \in ReqIds, who \in Waiters : RecvReqFail(r, who)
  \/ \E r \in ReqIds, who \in Waiters : RecvHealReqFail(r, who)
  \/ \E r \in ReqIds : RecvResp(r)
  \/ \E r \in ReqIds : RespCounted(r)
  \/ \E r \in ReqIds : RecvHealResp(r)
  \/ \E r \in ReqIds : HealRespCommitted(r)
  \/ Cancel
  \/ \E r \in ReqIds : TimeoutFires(r)
  \/ \E r \in ReqIds, who \in Waiters : ScheduleRevertGivesUp(r, who)
  \/ \E r \in ReqIds : DeliverGivesUp(r)
  \/ \E p \in Peers, id \in ReqIds : PeerReplies(p, id)

\* The goroutine of Sync runs on: the loop starts, and a response it took
\* is processed to the end.
LoopGoesOn ==
  \/ LoopStarts
  \/ \E r \in ReqIds : RespCounted(r)
  \/ \E r \in ReqIds : HealRespCommitted(r)

\* The select of the loop takes the send of a timer callback.
TakesTimeout ==
  \E r \in ReqIds : RecvReqFail(r, "timeout") \/ RecvHealReqFail(r, "timeout")

\* The select picks at random among its ready cases: a send that is ready
\* again and again is taken.
SpecLive == Init /\ [][NextLive]_vars /\ WF_vars(LoopGoesOn) /\ SF_vars(TakesTimeout)

(* ---------------- the syncer with requests that go away ---------------- *)
\* No thread holds the failed request rq any more: it was reverted and no
\* response of it processed, its timer is stopped, no handler and no
\* goroutine is at it.
Finished(rq) ==
  /\ rq.stale /\ ~rq.consumed
  /\ rq.timeout = "off"
  /\ rq.hnd \in {"none", "done"}

\* The request objects no thread holds and no ledger lists are collected
\* when all of them failed; the ids are free again, and a late reply to one
\* of them finds no request.
Forget ==
  /\ reqs # <<>>
  /\ bytecodeReqs = {} /\ bytecodeHealReqs = {} /\ dropSnap = {}
  /\ \A r \in 1..Len(reqs) : Finished(reqs[r])
  /\ reqs' = <<>>
  /\ OnlyReqs

NextRetry == NextLive \/ Forget

\* The fair loop of SpecLive, over request objects that go away.
SpecRetry == Init /\ [][NextRetry]_vars /\ WF_vars(LoopGoesOn) /\ SF_vars(TakesTimeout)

(* --------------------- the syncer over a checkpoint ------------------- *)
\* The blob of a hash.
BlobOf(h) == CHOOSE b \in AllBlobs : Keccak(b) = h

\* The database a cycle leaves that persisted the codes of S in its sync
\* phase and those of G in its heal phase and was then cancelled: the code
\* entries, and the progress record saveSyncStatus wrote.
CheckpointOf(S, G) ==
  [store |-> [h \in HashSpace |-> IF h \in S \cup G THEN BlobOf(h) ELSE Nil],
   status |-> StatusOf(IF S = Hashes THEN <<>> ELSE TaskSeq,
                       Cardinality(S), SumOver(S, [h \in HashSpace |-> BlobLen(BlobOf(h))]),
                       Cardinality(G), SumOver(G, [h \in HashSpace |-> BlobLen(BlobOf(h))]))]

\* The heal phase starts when the sync phase is over.
Checkpoints ==
  {CheckpointOf(S, G) : S \in SUBSET Hashes, G \in {{}}} \cup
  {CheckpointOf(Hashes, G) : G \in SUBSET HealWant}

\* NewSyncer over the database of an earlier run of the node.
InitResume ==
  /\ peers = {} /\ statelessPeers = {}
  /\ bytecodeIdlers = {} /\ bytecodeHealIdlers = {}
  /\ bytecodeReqs = {} /\ bytecodeHealReqs = {}
  /\ reqs = <<>>
  /\ tasks = <<>>
  /\ taskHeap = [t \in TaskIds |-> LoadTask(t, [h \in HashSpace |-> 1])]
  /\ healer = [codeTasks |-> {}, queue |-> {}, requested |-> {}, membatch |-> {}]
  /\ snapped = FALSE
  /\ update = FALSE
  /\ peerJoin = 0 /\ peerDrop = <<>>
  /\ cancel = <<>>
  /\ loop = "idle" /\ dropSnap = {}
  /\ cycle = 0
  /\ syncErr = "none"
  /\ \E c \in Checkpoints : codeStore = c.store /\ status = c.status
  /\ bytecodeSynced = 0 /\ bytecodeBytes = 0
  /\ bytecodeHealSynced = 0 /\ bytecodeHealBytes = 0
  /\ persisted = {} /\ workSet = {}
  /\ submitted = {}
  /\ val = NoVal

\* The resumed syncer, with peers that stay.
SpecResume == InitResume /\ [][NextLive]_vars

(* ------------------------ the fresh plan on its own ------------------- *)
\* The account hashes are HashBits wide (256 in the program).
HashSpaceSize == 2 ^ HashBits

\* common.BigToHash: the low HashBits bits of the number.
BigToHash(n) == n % HashSpaceSize

\* step := 2^256 / accountConcurrency - 1
PlanStep == (HashSpaceSize \div accountConcurrency) - 1

\* A variant of NextChunk that starts the next chunk at the last hash.
NextChunkOverlapping(last) == BigToHash(last)

\* next = common.BigToHash(last + 1)
NextChunk(last) == BigToHash(last + 1)

\* A new Syncer, or one whose earlier sync completed (no task left, the
\* counters as that sync left them), over a database whose progress record
\* is absent or does not decode; loadSyncStatus is about to run.  val.hashes
\* keeps the counters the syncer starts with.
InitPlan ==
  /\ peers = {} /\ statelessPeers = {}
  /\ bytecodeIdlers = {} /\ bytecodeHealIdlers = {}
  /\ bytecodeReqs = {} /\ bytecodeHealReqs = {}
  /\ reqs = <<>>
  /\ tasks = <<>>
  /\ taskHeap = [t \in TaskIds |-> LoadTask(t, [h \in HashSpace |-> 1])]
  /\ healer = [codeTasks |-> {}, queue |-> {}, requested |-> {}, membatch |-> {}]
  /\ snapped = FALSE
  /\ update = FALSE
  /\ peerJoin = 0 /\ peerDrop = <<>>
  /\ cancel = <<>>
  /\ loop = "idle" /\ dropSnap = {}
  /\ cycle = 0
  /\ syncErr = "none"
  /\ codeStore = [h \in HashSpace |-> Nil]
  /\ status \in {"absent", "undecodable"}
  /\ bytecodeSynced \in 0..MaxCount /\ bytecodeBytes \in 0..MaxCount
  /\ bytecodeHealSynced \in 0..MaxCount /\ bytecodeHealBytes \in 0..MaxCount
  /\ persisted = {} /\ workSet = {}
  /\ submitted = {}
  /\ val = [NoVal EXCEPT !.op = "loadSyncStatus", !.id = 0,
                         !.hashes = <<bytecodeSynced, bytecodeBytes,
                                      bytecodeHealSynced, bytecodeHealBytes>>]

PlanOnly ==
  UNCHANGED <<registry, ledgers, taskHeap, healer, snapped, channels, cancel, loop,
              dropSnap, cycle, syncErr, database, history>>

\* loadSyncStatus with no record to decode, up to its loop: the counters are
\* reset and next is the zero hash.  val.id is next, val.err the position.
LoadSyncStatusFresh ==
  /\ val.op = "loadSyncStatus" /\ val.err = "none"
  /\ status \in {"absent", "undecodable"}
  /\ bytecodeSynced' = 0 /\ bytecodeBytes' = 0
  /\ bytecodeHealSynced' = 0 /\ bytecodeHealBytes' = 0
  /\ val' = [val EXCEPT !.id = 0, !.err = "chunking"]
  /\ UNCHANGED tasks
  /\ PlanOnly

\* One pass of the loop of loadSyncStatus: the chunk from next to next + step
\* (to the last hash, for the last chunk) is appended to s.tasks.
PlanChunk ==
  /\ val.op = "loadSyncStatus" /\ val.err = "chunking"
  /\ LET i == Len(tasks)
         last == IF i = accountConcurrency - 1 THEN HashSpaceSize - 1
                 ELSE BigToHash(val.id + PlanStep)
     IN /\ tasks' = Append(tasks, [Next |-> val.id, Last |-> last])
        /\ val' = [val EXCEPT !.id = NextChunk(last),
                              !.err = IF i + 1 < accountConcurrency
                                      THEN "chunking" ELSE "planned"]
  /\ UNCHANGED counters
  /\ PlanOnly

NextPlan == LoadSyncStatusFresh \/ PlanChunk

SpecPlan == InitPlan /\ [][NextPlan]_vars

(* ----------------------- the lock of the syncer ----------------------- *)
\* The threads at the syncer, and what each function does with s.lock, the
\* channels and the peer, in the order of its code, one sequence per path:
\*   Lock, Unlock, RLock, RUnlock   s.lock
\*   trysend                        a send in a select with a default case
\*   send                           a send in a select with <-cancel, <-stale
\*   recv                           the select of the loop
\*   feed                           event.Feed.Send
\*   io                             peer.RequestByteCodes
\*   go                             a goroutine or a timer is started
Threads == {"sync", "handler", "caller", "timer", "wire"}
Blocking == {"send", "recv", "feed", "io"}

Concat(S, T) == {a \o b : a \in S, b \in T}

\* Register and Unregister: the failed check, and the notification after the
\* registry is updated.
RegisterOps == {<<"Lock", "Unlock">>, <<"Lock", "Unlock", "feed">>}
UnregisterOps == {<<"Lock", "Unlock">>, <<"Lock", "Unlock", "feed">>}
ProgressOps == {<<"Lock", "Unlock">>}

\* A variant of onByteCodesOps that schedules the revert before the unlock.
onByteCodesOpsLocked ==
  {<<"Lock", "trysend", "Unlock">>, <<"Lock", "trysend", "send", "Unlock">>}

\* onByteCodes and onHealByteCodes: the reply to an unknown request or a
\* timed out one; a refusal, a failed validation and a delivery, which end
\* in scheduleRevertBytecodeRequest or in the send on req.deliver.
onByteCodesOps ==
  {<<"Lock", "trysend", "Unlock">>, <<"Lock", "trysend", "Unlock", "send">>}

\* OnByteCodes reads s.snapped and calls the handler of the phase.
OnByteCodesOps == Concat({<<"RLock", "RUnlock">>}, onByteCodesOps)

\* assignBytecodeTasks and assignBytecodeHealTasks, with no idle peer and
\* with a request sent.
AssignOps == {<<"Lock", "Unlock">>, <<"Lock", "go", "Unlock">>}

\* revertBytecodeRequest and revertBytecodeHealRequest: a stale request, and
\* the removal from the ledger.
RevertOps == {<<>>, <<"Lock", "Unlock">>}

\* revertRequests: the requests are gathered, then reverted.
RevertRequestsOps == Concat({<<"Lock", "Unlock">>}, RevertOps)

\* Sync: its entry and its deferred exit, and one pass of the loop: the
\* assignments, the select and the case taken.
SyncOps ==
  {<<"Lock", "Unlock">>} \cup
  Concat(Concat(Concat(AssignOps, {<<>>} \cup AssignOps), {<<"recv">>}),
         RevertOps \cup RevertRequestsOps)

\* The timer callback and the goroutine of a request.
TimerOps == {<<"send">>}
WireOps == {<<"io">>, <<"io", "send">>}

OpsOf(t) ==
  CASE t = "sync" -> SyncOps
    [] t = "handler" -> OnByteCodesOps
    [] t = "caller" -> RegisterOps \cup UnregisterOps \cup ProgressOps
    [] t = "timer" -> TimerOps
    [] t = "wire" -> WireOps

\* val.hashes is what each thread has left to do, val.id the thread that
\* holds s.lock for writing, val.codes those that hold it for reading.
InitLock ==
  /\ InitSyncer
  /\ val = [NoVal EXCEPT !.op = "lock", !.id = "none", !.codes = {},
                         !.hashes = [t \in Threads |-> <<>>]]

LockOnly ==
  UNCHANGED <<registry, ledgers, sources, channels, cancel, loop, dropSnap,
              cycle, syncErr, database, counters, history>>

Todo(t) == val.hashes[t]
NextOp(t) == IF Todo(t) = <<>> THEN "none" ELSE Head(Todo(t))
Advance(t) == [val EXCEPT !.hashes[t] = Tail(@)]

\* Thread t enters one of its functions.
Calls(t) ==
  /\ val.op = "lock" /\ Todo(t) = <<>>
  /\ \E ops \in OpsOf(t) \ {<<>>} : val' = [val EXCEPT !.hashes[t] = ops]
  /\ LockOnly

\* s.lock.Lock(), s.lock.RLock()
Acquires(t) ==
  /\ val.op = "lock"
  /\ \/ /\ NextOp(t) = "Lock" /\ val.id = "none" /\ val.codes = {}
        /\ val' = [Advance(t) EXCEPT !.id = t]
     \/ /\ NextOp(t) = "RLock" /\ val.id = "none"
        /\ val' = [Advance(t) EXCEPT !.codes = @ \cup {t}]
  /\ LockOnly

\* s.lock.Unlock(), s.lock.RUnlock()
Releases(t) ==
  /\ val.op = "lock"
  /\ \/ /\ NextOp(t) = "Unlock" /\ val' = [Advance(t) EXCEPT !.id = "none"]
     \/ /\ NextOp(t) = "RUnlock" /\ val' = [Advance(t) EXCEPT !.codes = @ \ {t}]
  /\ LockOnly

\* An operation that waits for no other thread of the syncer: a send with a
\* default case, the start of a goroutine, the peer's I/O, the feed, and
\* the select of the loop taking an update, a peer event or the cancel.
Runs(t) ==
  /\ val.op = "lock"
  /\ NextOp(t) \in {"trysend", "go", "io", "feed", "recv"}
  /\ val' = Advance(t)
  /\ LockOnly

\* A send on req.revert or req.deliver: the loop is at its select and takes it.
Sends(t) ==
  /\ val.op = "lock"
  /\ NextOp(t) = "send" /\ t # "sync" /\ NextOp("sync") = "recv"
  /\ val' = [val EXCEPT !.hashes[t] = Tail(@), !.hashes["sync"] = Tail(@)]
  /\ LockOnly

\* The cases <-req.cancel and <-req.stale of the sender's select.
GivesUp(t) ==
  /\ val.op = "lock"
  /\ NextOp(t) = "send"
  /\ val' = Advance(t)
  /\ LockOnly

NextLock ==
  \E t \in Threads :
     Calls(t) \/ Acquires(t) \/ Releases(t) \/ Runs(t) \/ Sends(t) \/ GivesUp(t)

SpecLock == InitLock /\ [][NextLock]_vars

(* -------------------- one assignment pass on its own ------------------ *)
\* The account tasks of the pass and the orders their maps are ranged over.
PassTasks == 1..NumPassTasks
PassOrders == [PassTasks -> Perms(Hashes)]

\* The syncer at the top of an iteration of the loop of Sync, with the peers
\* RegIds registered: in its sync phase, with account tasks whose codes are
\* pending or with a peer, or in its heal phase; any of the peers idle in the
\* phase, any of them stateless.  The ledgers are empty: the replies so far
\* were taken out by their handlers.  val.codes keeps the capacities the
\* rate tracker reports during the pass.
InitAssign ==
  /\ peers = RegIds
  /\ statelessPeers \in SUBSET RegIds
  /\ bytecodeReqs = {} /\ bytecodeHealReqs = {}
  /\ reqs = <<>>
  /\ \E idl \in SUBSET RegIds :
        \/ /\ tasks = [t \in PassTasks |-> t]
           /\ snapped = FALSE
           /\ bytecodeIdlers = idl /\ bytecodeHealIdlers = RegIds
           /\ \E pend \in [PassTasks -> SUBSET Hashes] :
                 taskHeap = [t \in PassTasks |->
                               [codeTasks |-> pend[t], needCode |-> Hashes,
                                res |-> TRUE, done |-> FALSE]]
           /\ healer = NewHealer([h \in HashSpace |-> Nil])
        \/ /\ tasks = <<>>
           /\ snapped = TRUE
           /\ bytecodeIdlers = RegIds /\ bytecodeHealIdlers = idl
           /\ taskHeap = [t \in PassTasks |->
                            [codeTasks |-> {}, needCode |-> {},
                             res |-> FALSE, done |-> TRUE]]
           /\ \E ct \in SUBSET HealWant : \E qu \in SUBSET (HealWant \ ct) :
                 healer = [codeTasks |-> ct, queue |-> qu,
                           requested |-> HealWant \ qu, membatch |-> {}]
  /\ update = FALSE
  /\ peerJoin = 0 /\ peerDrop = <<>>
  /\ cancel = <<FALSE>>
  /\ loop = "top" /\ dropSnap = {}
  /\ cycle = 1
  /\ syncErr = "none"
  /\ codeStore = [h \in HashSpace |-> Nil]
  /\ status = StatusOf(TaskSeq, 0, 0, 0, 0)
  /\ bytecodeSynced = 0 /\ bytecodeBytes = 0
  /\ bytecodeHealSynced = 0 /\ bytecodeHealBytes = 0
  /\ persisted = {} /\ workSet = Hashes
  /\ submitted = {}
  /\ \E caps \in [RegIds -> Caps] :
        val = [NoVal EXCEPT !.op = "assign", !.codes = caps]

PassOnly ==
  UNCHANGED <<peers, statelessPeers, tasks, snapped, channels, cancel, dropSnap,
              cycle, syncErr, status, val>>

\* Sync, the call of assignBytecodeTasks with tasks left.
AssignsTasks ==
  /\ val.op = "assign" /\ loop = "top" /\ tasks # <<>>
  /\ \E iter \in PassOrders, so \in SortedIdlers(bytecodeIdlers, val.codes) :
        Commit(IF so = <<>> THEN LoopState
               ELSE assignBytecodeTasks(tasks, so, LoopState, val.codes, iter, cycle))
  /\ loop' = "select"
  /\ PassOnly

\* Sync, the call of assignBytecodeHealTasks once no task is left.
AssignsHealTasks ==
  /\ val.op = "assign" /\ loop = "top" /\ tasks = <<>>
  /\ \E hiter \in HealOrders, ho \in SortedIdlers(bytecodeHealIdlers, val.codes) :
        Commit(IF ho = <<>> THEN LoopState
               ELSE assignBytecodeHealTasks(ho, LoopState, val.codes, hiter, cycle))
  /\ loop' = "select"
  /\ PassOnly

NextAssign == AssignsTasks \/ AssignsHealTasks

SpecAssign == InitAssign /\ [][NextAssign]_vars

(* ---------------------- the request id on its own --------------------- *)
\* rand.Int63() returns a number from 0 to MaxId (2^63 - 1 in the program).
Int63 == 0..MaxId

\* A variant of Rejected that does not look the id up in the ledger.
RejectedZeroOnly(reqid, ledger) == reqid = 0

\* The two continue conditions of the loop that draws the id.
Rejected(reqid, ledger) == reqid = 0 \/ reqid \in ledger

\* The ledger of the phase the pass is in, by its keys.
PassLedger == IF val.heal THEN bytecodeHealReqs ELSE bytecodeReqs

\* assignBytecodeTasks (val.heal false) or assignBytecodeHealTasks (true)
\* has popped an idle peer and is at the loop that allocates the id.  The
\* ledgers are given by their keys, ids that earlier passes drew, with an
\* id left to draw; val.id is reqid, val.err the position in the code.
InitDraw ==
  /\ peers = Peers /\ statelessPeers = {}
  /\ bytecodeIdlers = {} /\ bytecodeHealIdlers = {}
  /\ bytecodeReqs \in SUBSET (Int63 \ {0})
  /\ bytecodeHealReqs \in SUBSET (Int63 \ {0})
  /\ reqs = <<>>
  /\ tasks = TaskSeq
  /\ taskHeap = [t \in TaskIds |-> LoadTask(t, [h \in HashSpace |-> Nil])]
  /\ healer = NewHealer([h \in HashSpace |-> Nil])
  /\ snapped = FALSE
  /\ update = FALSE
  /\ peerJoin = 0 /\ peerDrop = <<>>
  /\ cancel = <<FALSE>>
  /\ loop = "top" /\ dropSnap = {}
  /\ cycle = 1
  /\ syncErr = "none"
  /\ codeStore = [h \in HashSpace |-> Nil]
  /\ status = StatusOf(TaskSeq, 0, 0, 0, 0)
  /\ bytecodeSynced = 0 /\ bytecodeBytes = 0
  /\ bytecodeHealSynced = 0 /\ bytecodeHealBytes = 0
  /\ persisted = {} /\ workSet = Hashes
  /\ submitted = {}
  /\ \E h \in BOOLEAN :
        /\ Cardinality(IF h THEN bytecodeHealReqs ELSE bytecodeReqs) < MaxId
        /\ val = [NoVal EXCEPT !.op = "reqid", !.heal = h, !.id = 0, !.err = "for"]

DrawOnly ==
  UNCHANGED <<registry, reqs, sources, channels, cancel, loop, dropSnap,
              cycle, syncErr, database, counters, history>>

\* reqid = uint64(rand.Int63())
DrawsReqid ==
  /\ val.op = "reqid" /\ val.err = "for"
  /\ \E n \in Int63 : val' = [val EXCEPT !.id = n, !.err = "drawn"]
  /\ UNCHANGED <<bytecodeReqs, bytecodeHealReqs>>
  /\ DrawOnly

\* continue: the id is zero or in the ledger.
DrawsAgain ==
  /\ val.op = "reqid" /\ val.err = "drawn"
  /\ Rejected(val.id, PassLedger)
  /\ val' = [val EXCEPT !.err = "for"]
  /\ UNCHANGED <<bytecodeReqs, bytecodeHealReqs>>
  /\ DrawOnly

\* break
KeepsReqid ==
  /\ val.op = "reqid" /\ val.err = "drawn"
  /\ ~Rejected(val.id, PassLedger)
  /\ val' = [val EXCEPT !.err = "break"]
  /\ UNCHANGED <<bytecodeReqs, bytecodeHealReqs>>
  /\ DrawOnly

\* s.bytecodeReqs[reqid] = req, s.bytecodeHealReqs[reqid] = req: val.done
\* tells that the key was in the map, whose entry the new request replaces.
RecordsRequest ==
  /\ val.op = "reqid" /\ val.err = "break"
  /\ val' = [val EXCEPT !.err = "recorded", !.done = val.id \in PassLedger]
  /\ IF val.heal
     THEN bytecodeHealReqs' = bytecodeHealReqs \cup {val.id} /\ UNCHANGED bytecodeReqs
     ELSE bytecodeReqs' = bytecodeReqs \cup {val.id} /\ UNCHANGED bytecodeHealReqs
  /\ DrawOnly

NextDraw == DrawsReqid \/ DrawsAgain \/ KeepsReqid \/ RecordsRequest

SpecDraw == InitDraw /\ [][NextDraw]_vars

(* ------------- the syncer with a peer that always answers ------------- *)
\* Two peers: the first answers every request it gets in time, in full and
\* with the codes asked for; the second does what it likes.
GoodPeer == NumPeers
BadPeer == NumPeers + 1

\* A new syncer after Register(GoodPeer) and Register(BadPeer).
InitGood ==
  /\ peers = {GoodPeer, BadPeer} /\ statelessPeers = {}
  /\ bytecodeIdlers = {GoodPeer, BadPeer} /\ bytecodeHealIdlers = {GoodPeer, BadPeer}
  /\ bytecodeReqs = {} /\ bytecodeHealReqs = {}
  /\ reqs = <<>>
  /\ tasks = <<>>
  /\ taskHeap = [t \in TaskIds |-> LoadTask(t, [h \in HashSpace |-> 1])]
  /\ healer = [codeTasks |-> {}, queue |-> {}, requested |-> {}, membatch |-> {}]
  /\ snapped = FALSE
  /\ update = FALSE
  /\ peerJoin = 0 /\ peerDrop = <<>>
  /\ cancel = <<>>
  /\ loop = "idle" /\ dropSnap = {}
  /\ cycle = 0
  /\ syncErr = "none"
  /\ codeStore = [h \in HashSpace |-> Nil]
  /\ status = StatusOf(TaskSeq, 0, 0, 0, 0)
  /\ bytecodeSynced = 0 /\ bytecodeBytes = 0
  /\ bytecodeHealSynced = 0 /\ bytecodeHealBytes = 0
  /\ persisted = {} /\ workSet = {}
  /\ submitted = {}
  /\ val = NoVal

\* The reply that has the code of every hash of the manifest, in its order.
CompleteReply(id) ==
  [i \in 1..Len(reqs[id].hashes) |-> BlobOf(reqs[id].hashes[i])]

\* The good peer answers a request it was sent, before the timer fires.
GoodPeerReplies(id) ==
  /\ id \in bytecodeReqs \cup bytecodeHealReqs
  /\ reqs[id].peer = GoodPeer /\ reqs[id].timeout = "armed"
  /\ OnByteCodes(GoodPeer, id, CompleteReply(id))

\* The bad peer sends any packet for any id.
BadPeerReplies(id) == PeerReplies(BadPeer, id)

\* The oldest request object goes away once no thread holds it (Finished);
\* the ids, which are positions in reqs, move down by one.
ForgetsOldest ==
  /\ reqs # <<>> /\ Finished(reqs[1])
  /\ 1 \notin bytecodeReqs \cup bytecodeHealReqs \cup dropSnap
  /\ reqs' = Tail(reqs)
  /\ bytecodeReqs' = {r - 1 : r \in bytecodeReqs}
  /\ bytecodeHealReqs' = {r - 1 : r \in bytecodeHealReqs}
  /\ dropSnap' = {r - 1 : r \in dropSnap}
  /\ UNCHANGED <<registry, sources, channels, cancel, loop, cycle, syncErr,
                 database, counters, history, val>>

\* The failures the loop takes: no timer of a request to the good peer
\* fires and no send to it fails.
TakesFailure ==
  \E r \in ReqIds, who \in Waiters :
     /\ RecvReqFail(r, who) \/ RecvHealReqFail(r, who)
     /\ who = "wire" => reqs[r].peer = BadPeer

TakesResponse ==
  \E r \in ReqIds : RecvResp(r) \/ RecvHealResp(r)

BadTimeoutFires ==
  \E r \in ReqIds : TimeoutFires(r) /\ reqs[r].peer = BadPeer

GoodPeerAnswers == \E id \in ReqIds : GoodPeerReplies(id)

NextGood ==
  \/ SyncStart
  \/ LoopStarts
  \/ RecvUpdate
  \/ TakesFailure
  \/ TakesResponse
  \/ \E r \in ReqIds : RespCounted(r)
  \/ \E r \in ReqIds : HealRespCommitted(r)
  \/ BadTimeoutFires
  \/ \E r \in ReqIds, who \in Waiters : ScheduleRevertGivesUp(r, who)
  \/ \E r \in ReqIds : DeliverGivesUp(r)
  \/ GoodPeerAnswers
  \/ \E id \in ReqIds : BadPeerReplies(id)
  \/ ForgetsOldest

\* Fair scheduling: Sync is called, its goroutine runs on, its select takes
\* every case that is ready again and again, the good peer answers, and the
\* request objects no thread holds are collected.
SpecGood ==
  /\ InitGood /\ [][NextGood]_vars
  /\ WF_vars(SyncStart) /\ WF_vars(LoopGoesOn)
  /\ SF_vars(RecvUpdate) /\ SF_vars(TakesFailure) /\ SF_vars(TakesResponse)
  /\ WF_vars(GoodPeerAnswers) /\ WF_vars(ForgetsOldest)

(* ------------- the syncer with the unregister calls noted -------------- *)
\* Unregister, with the number of requests issued so far noted in val.id:
\* the requests numbered above it are issued after the call.
UnregisterNoted(p) ==
  /\ Unregisters(p)
  /\ val' = [val EXCEPT !.op = "unregister", !.id = Len(reqs)]

NextRejoin ==
  \/ \E p \in Peers : Register(p)
  \/ \E p \in Peers : UnregisterNoted(p)
  \/ SyncStart
  \/ LoopStarts
  \/ RecvUpdate
  \/ RecvPeerJoin
  \/ RecvPeerDropNone
  \/ RecvPeerDrop
  \/ \E r \in ReqIds : RevertGathered(r)
  \/ \E r \in ReqIds : RevertLastGathered(r)
  \/ \E r \in ReqIds, who \in Waiters : RecvReqFail(r, who)
  \/ \E r \in ReqIds, who \in Waiters : RecvHealReqFail(r, who)
  \/ \E r \in ReqIds : RecvResp(r)
  \/ \E r \in ReqIds : RespCounted(r)
  \/ \E r \in ReqIds : RecvHealResp(r)
  \/ \E r \in ReqIds : HealRespCommitted(r)
  \/ \E r \in ReqIds : TimeoutFires(r)
  \/ \E r \in ReqIds, who \in Waiters : ScheduleRevertGivesUp(r, who)
  \/ \E r \in ReqIds : DeliverGivesUp(r)
  \/ \E p \in Peers, id \in ReqIds : PeerReplies(p, id)

SpecRejoin == Init /\ [][NextRejoin]_vars

(* ============================ properties ============================== *)
ReqSet == 1..Len(reqs)
ThisCycle == {r \in ReqSet : reqs[r].cyc = cycle}

\* The requests a step allocates.
Issued == (Len(reqs) + 1)..Len(reqs')

\* Hash h of request r is pending after the step: in the pending set of the
\* request's work source, or already in the manifest of a request the same
\* pass of the loop allocated from it.
Requeued(r, h) ==
  \/ ~reqs[r].heal /\ h \in taskHeap'[reqs[r].task].codeTasks
  \/ reqs[r].heal /\ h \in healer'.codeTasks
  \/ \E q \in Issued : /\ reqs'[q].heal = reqs[r].heal
                       /\ reqs'[q].task = reqs[r].task
                       /\ h \in Range(reqs'[q].hashes)

\* The step closes the stale channel of request r: an effective revert.
Reverts(r) == r \in ReqSet /\ ~reqs[r].stale /\ reqs'[r].stale

\* The step is the loop's consumption of the response of request r.
Consumes(r) == r \in ReqSet /\ ~reqs[r].consumed /\ reqs'[r].consumed

\* The step is the reply handler's verdict on the reply to request r.
Judges(r, verdict) ==
  r \in ReqSet /\ reqs[r].reply = "none" /\ reqs'[r].reply = verdict

(* -------------------------------- C1 ---------------------------------- *)
\* C1: for no request does the loop both consume its validated response and
\* perform an effective revert of it.
C1_DeliveryXorRevert ==
  \A r \in ReqSet : ~(reqs[r].consumed /\ reqs[r].stale)

(* -------------------------------- C2 ---------------------------------- *)
PendingHashes ==
  UNION {taskHeap[t].codeTasks : t \in TaskIds} \cup healer.codeTasks
LedgerHashes ==
  UNION {Range(reqs[r].hashes) : r \in bytecodeReqs \cup bytecodeHealReqs}
LiveHashes ==
  UNION {Range(reqs[r].hashes) :
           r \in {q \in ThisCycle : ~reqs[q].stale /\ ~reqs[q].consumed}}

C3_HashIntegrity ==
  /\ \A h \in HashSpace : codeStore[h] # Nil => Keccak(codeStore[h]) = h
  /\ \A pr \in submitted : Keccak(pr[2]) = pr[1]

\* Pairs were written by the sync phase and submitted by the heal phase.
C3_Witness ==
  /\ \E r \in ReqSet : reqs[r].heal /\ reqs[r].consumed
  /\ \E r \in ReqSet : ~reqs[r].heal /\ reqs[r].consumed
  /\ submitted # {}
  /\ \E h \in HashSpace : codeStore[h] # Nil

(* -------------------------------- C4 ---------------------------------- *)
\* C4: in the sync phase of a cycle, whenever no response is half processed,
\* bytecodeSynced is the number of distinct hashes persisted since the cycle
\* started and bytecodeBytes the sum of the lengths of their blobs.
C4_NoDuplicateAccounting ==
  (loop \notin {"idle", "counting"} /\ ~snapped) =>
     /\ bytecodeSynced = Cardinality(persisted)
     /\ bytecodeBytes = SumOver(persisted, [h \in HashSpace |-> BlobLen(codeStore[h])])

(* -------------------------------- C5 ---------------------------------- *)
\* The blobs of the reply are a subsequence of the manifest, in its order.
InManifestOrder(hashes, bytecodes) ==
  \E f \in [1..Len(bytecodes) -> 1..Len(hashes)] :
     /\ \A k \in 1..Len(bytecodes) : Keccak(bytecodes[k]) = hashes[f[k]]
     /\ \A k \in 1..(Len(bytecodes) - 1) : f[k] < f[k + 1]

\* C5: for a non-empty reply whose blobs are a subsequence of the manifest in
\* manifest order, the validator returns no error and an array of as many
\* entries as the manifest, entry i the blob of the reply with hash
\* manifest[i], or nil when the reply has none.
C5_ValidatorAlignment ==
  (val.done /\ val.bytecodes # <<>> /\ InManifestOrder(val.hashes, val.bytecodes)) =>
     /\ val.ok
     /\ Len(val.codes) = Len(val.hashes)
     /\ \A i \in 1..Len(val.hashes) :
          IF \E k \in 1..Len(val.bytecodes) : Keccak(val.bytecodes[k]) = val.hashes[i]
          THEN val.codes[i] # Nil /\ Keccak(val.codes[i]) = val.hashes[i]
               /\ val.codes[i] \in Range(val.bytecodes)
          ELSE val.codes[i] = Nil

\* The validator ran on a reply in manifest order that omits a blob in the
\* middle of the manifest.
C5_Witness ==
  /\ val.done /\ val.ok
  /\ Len(val.hashes) = 3 /\ Len(val.bytecodes) = 2
  /\ InManifestOrder(val.hashes, val.bytecodes)
  /\ val.codes[1] # Nil /\ val.codes[2] = Nil /\ val.codes[3] # Nil

(* -------------------------------- C6 ---------------------------------- *)
Cancelled(r) == cancel[reqs[r].cyc]

\* What holds of a request whose reply failed the validation, whatever
\* happens next: no response of it is on its way to the loop or consumed,
\* and the step that reverts it leaves all its hashes pending.
RejectedStaysOut(r) ==
  /\ ~reqs'[r].consumed /\ reqs'[r].hnd # "deliver" /\ reqs'[r].codes = <<>>
  /\ Reverts(r) => \A h \in Range(reqs[r].hashes) : Requeued(r, h)
  /\ Judges(r, "bad") => codeStore' = codeStore /\ counters' = counters

\* C6 as stated: once the handler has returned the error for a reply that
\* failed the validation, no response is delivered, nothing of the reply is
\* persisted and the request is reverted, with all its hashes pending again.
C6_RejectionAlwaysReverts ==
  [][\A r \in 1..Len(reqs') : reqs'[r].reply = "bad" =>
        /\ RejectedStaysOut(r)
        /\ reqs'[r].hnd = "done" => reqs'[r].stale]_vars

\* C6, amended: the same, the request being reverted unless its cycle was
\* cancelled before the loop took the revert.
C6_RejectionRevertsUnlessCancelled ==
  [][\A r \in 1..Len(reqs') : reqs'[r].reply = "bad" =>
        /\ RejectedStaysOut(r)
        /\ (reqs'[r].hnd = "done" /\ ~cancel'[reqs'[r].cyc]) => reqs'[r].stale]_vars

\* The handler returned the error for a reply and the request is reverted,
\* in a cycle that runs on.
C6_Witness ==
  \E r \in ThisCycle : /\ reqs[r].reply = "bad" /\ reqs[r].hnd = "done"
                       /\ reqs[r].stale /\ ~Cancelled(r) /\ loop = "select"

(* -------------------------------- C7 ---------------------------------- *)
\* The step is the loop's receive of the response of request r.
Receives(r) == r \in ReqSet /\ reqs[r].hnd = "deliver" /\ reqs'[r].hnd = "processing"

\* C7: the loop, when it takes a validated sync response, writes every
\* delivered blob under its hash and nothing else, and leaves every missing
\* hash unwritten and pending in the owning task; when it has processed the
\* response it has added the number of blobs written and the sum of their
\* lengths to the counters.
C7_PartialReplyProcessing ==
  [][\A r \in ReqSet :
        LET res == reqs[r]
            got == {res.hashes[i] : i \in Delivered(res)}
        IN /\ (Receives(r) /\ ~res.heal) =>
                /\ \A i \in Delivered(res) : codeStore'[res.hashes[i]] = res.codes[i]
                /\ \A h \in HashSpace \ got : codeStore'[h] = codeStore[h]
                /\ \A i \in Missed(res) : Requeued(r, res.hashes[i])
                /\ counters' = counters
           /\ (Consumes(r) /\ ~res.heal) =>
                /\ codeStore' = codeStore
                /\ bytecodeSynced' = bytecodeSynced + Cardinality(Delivered(res))
                /\ bytecodeBytes' = bytecodeBytes
                      + SumOver(Delivered(res),
                                [i \in 1..Len(res.hashes) |-> BlobLen(res.codes[i])])
                /\ bytecodeHealSynced' = bytecodeHealSynced
                /\ bytecodeHealBytes' = bytecodeHealBytes]_vars

\* A sync response was consumed that delivered one hash of its manifest and
\* missed the other: the one is stored, the other is not.
C7_Witness ==
  \E r \in ReqSet :
     /\ ~reqs[r].heal /\ reqs[r].consumed /\ ~reqs[r].stale
     /\ Len(reqs[r].hashes) = 2
     /\ \E i, j \in 1..2 : /\ codeStore[reqs[r].hashes[i]] # Nil
                           /\ codeStore[reqs[r].hashes[j]] = Nil
     /\ bytecodeSynced = 1

(* -------------------------------- C8 ---------------------------------- *)
\* What holds of a request answered by an empty list while its timer had not
\* fired: the handler's step marks the peer stateless and writes nothing, no
\* response of it reaches the loop, and the step that reverts it leaves all
\* its hashes pending.
RefusedStaysOut(r) ==
  /\ Judges(r, "empty") => /\ reqs'[r].from \in statelessPeers'
                            /\ reqs[r].timeout = "armed"
                            /\ codeStore' = codeStore /\ counters' = counters
  /\ ~reqs'[r].consumed /\ reqs'[r].hnd # "deliver" /\ reqs'[r].codes = <<>>
  /\ Reverts(r) => /\ \A h \in Range(reqs[r].hashes) : Requeued(r, h)
                   /\ codeStore' = codeStore /\ counters' = counters

\* C8 as stated: an empty reply to a live request marks the peer stateless,
\* writes nothing, changes no counter, and the request is reverted with all
\* its hashes pending again.
C8_RefusalAlwaysReverts ==
  [][\A r \in 1..Len(reqs') : reqs'[r].reply = "empty" =>
        /\ RefusedStaysOut(r)
        /\ reqs'[r].hnd = "done" => reqs'[r].stale]_vars

\* C8, amended: the same, the request being reverted unless its cycle was
\* cancelled before the loop took the revert.
C8_RefusalRevertsUnlessCancelled ==
  [][\A r \in 1..Len(reqs') : reqs'[r].reply = "empty" =>
        /\ RefusedStaysOut(r)
        /\ (reqs'[r].hnd = "done" /\ ~cancel'[reqs'[r].cyc]) => reqs'[r].stale]_vars

\* A request was refused and reverted in a cycle that runs on; its peer is
\* stateless and nothing is stored or counted.
C8_Witness ==
  \E r \in ThisCycle : /\ reqs[r].reply = "empty" /\ reqs[r].hnd = "done"
                       /\ reqs[r].stale /\ ~Cancelled(r) /\ loop = "select"
                       /\ reqs[r].from \in statelessPeers
                       /\ bytecodeSynced = 0 /\ persisted = {}

(* -------------------------------- C9 ---------------------------------- *)
\* The peers that returned an empty reply in the running cycle.
Refused == {reqs[r].from : r \in {q \in ThisCycle : reqs[q].reply = "empty"}}

C10_ReplyAfterUnregisterDropped ==
  [][\A r \in ReqSet :
        (reqs[r].peer \notin peers /\ reqs[r].hnd = "none") =>
           reqs'[r].hnd # "deliver"]_vars

(* -------------------------------- C20 --------------------------------- *)
\* The blobs the response of request r delivers are in the store, under
\* their hashes, before the step.
Written(r) ==
  \A i \in Delivered(reqs[r]) : codeStore[reqs[r].hashes[i]] = reqs[r].codes[i]

\* The step of the loop on the response of request r adds to the counters.
Counts(r) ==
  /\ r \in ReqSet /\ reqs[r].hnd # reqs'[r].hnd
  /\ reqs'[r].hnd \in {"processing", "done"}
  /\ counters' # counters

\* The sync phase counts the blobs of a response after their batch is written.
SyncCountedAfterWrite == \A r \in ReqSet : (Counts(r) /\ ~reqs[r].heal) => Written(r)

\* C20: in both phases, the step that adds the blobs of a response to the
\* counters starts from a state in which the database batch holding them has
\* been written: every blob it counts is in the store.
C20_CountedAfterWrite ==
  [][\A r \in ReqSet : Counts(r) => Written(r)]_vars

(* -------------------------------- C11 --------------------------------- *)
\* The ledger OnByteCodes looks the request id up in.
PhaseLedger == IF snapped THEN bytecodeHealReqs ELSE bytecodeReqs

\* C11: a reply whose request id is not in the ledger of the handler's phase
\* (never issued, already answered, already reverted) is dropped: the step
\* of the handler leaves the ledgers and the requests, the pending sets, the
\* stateless set, the code store and the counters as they were, and puts no
\* response and no revert on its way to the loop.
C11_UnknownReplyDropped ==
  [][\A p \in Peers, id \in ReqIds :
        (PeerReplies(p, id) /\ id \notin PhaseLedger) =>
           /\ UNCHANGED <<ledgers, sources, statelessPeers>>
           /\ UNCHANGED <<database, counters, history>>]_vars

\* A handler ran in a cycle that has issued no request: update is signalled
\* (only the handlers signal it) and nothing else has moved.
C11_Witness ==
  /\ loop = "select" /\ reqs = <<>> /\ update
  /\ statelessPeers = {} /\ bytecodeSynced = 0

(* -------------------------------- C12 --------------------------------- *)
\* The timer of request r fired and its revert is not taken yet.
TimedOut(r) == r \in ReqSet /\ reqs[r].timeout = "fired"

\* C12: a reply to a request whose timer has fired is not validated and not
\* delivered: the handler's step takes the request out of the ledger and
\* leaves the request, the pending sets, the stateless set, the store and
\* the counters alone.  The timer's callback ends only with the request
\* reverted or its cycle cancelled, the revert puts every hash of the
\* request back into the pending set, and while it is neither reverted nor
\* cancelled the Sync call that issued it has not returned.
C12_LateReplyLeftToTimeout ==
  [][/\ \A p \in Peers, id \in ReqIds :
          (PeerReplies(p, id) /\ id \in PhaseLedger /\ TimedOut(id)) =>
             /\ id \notin bytecodeReqs' \cup bytecodeHealReqs'
             /\ UNCHANGED <<reqs, sources, statelessPeers>>
             /\ UNCHANGED <<database, counters, history>>
     /\ \A r \in ReqSet : TimedOut(r) =>
          /\ reqs'[r].hnd = "none" /\ ~reqs'[r].consumed /\ reqs'[r].codes = <<>>
          /\ reqs'[r].timeout # "fired" => (reqs'[r].stale \/ Cancelled(r))
          /\ Reverts(r) => \A h \in Range(reqs[r].hashes) : Requeued(r, h)
          /\ (~reqs'[r].stale /\ ~cancel'[reqs[r].cyc]) =>
                (loop' # "idle" /\ reqs[r].cyc = cycle')]_vars

\* A request whose timer fired is reverted, unless its cycle is cancelled
\* (or the loop stopped short of the bound on the requests).
TimedOutIsReverted ==
  \A r \in ReqIds :
     (TimedOut(r) /\ ~Cancelled(r)) ~>
        (r \in ReqSet /\ (reqs[r].stale \/ Cancelled(r) \/ loop = "halted"))

LoopHandles ==
  \/ RecvUpdate
  \/ RecvPeerJoin
  \/ RecvPeerDropNone
  \/ RecvPeerDrop
  \/ \E r \in ReqIds, who \in Waiters : RecvReqFail(r, who) \/ RecvHealReqFail(r, who)
  \/ \E r \in ReqIds : RecvResp(r) \/ RecvHealResp(r)

\* C13: once the cancel channel of the running cycle is closed, the loop at
\* its select takes no update, peer, failure or response event any more, and
\* the Sync call returns ErrCancelled.
C13_CancelReturnsAtOnce ==
  [][(loop # "idle" /\ cancel[cycle]) =>
        /\ loop = "select" => ~LoopHandles
        /\ loop' = "idle" => syncErr' = "cancelled"]_vars

(* -------------------------------- C14 --------------------------------- *)
\* A thread of request r is still at a select that the loop could serve: a
\* timer callback or a handler with a revert to schedule, or a handler with
\* a response to deliver.
Running(rq) == rq.timeout = "fired" \/ rq.hnd \in {"revert", "deliver"}

C15_FailedCallsChangeNothing ==
  [][\A p \in RegIds :
        /\ CallRegister(p) =>
             IF p \in peers
             THEN /\ val'.err = "already registered"
                  /\ UNCHANGED <<registry, ledgers, peerJoin, peerDrop>>
             ELSE val'.err = "nil" /\ p \in peers'
        /\ CallUnregister(p) =>
             IF p \notin peers
             THEN /\ val'.err = "not registered"
                  /\ UNCHANGED <<registry, ledgers, peerJoin, peerDrop>>
             ELSE val'.err = "nil" /\ p \notin peers']_vars

\* Register failed for an id that is registered, while a Sync call is
\* subscribed to the peer events: none is queued.
C15_Witness ==
  /\ val.op = "Register" /\ val.err = "already registered" /\ val.id \in peers
  /\ loop # "idle" /\ peerJoin = 0 /\ peerDrop = <<>>

(* -------------------------------- C16 --------------------------------- *)
\* The sync phase is complete: a cycle has loaded the account tasks and none
\* is left.
SyncPhaseComplete == cycle > 0 /\ tasks = <<>>

C17_RevertRequeuesAll ==
  [][\A r \in 1..Len(reqs') :
        /\ Reverts(r) =>
             /\ r \notin bytecodeReqs' \cup bytecodeHealReqs'
             /\ reqs'[r].timeout # "armed"
             /\ \A h \in Range(reqs[r].hashes) : Requeued(r, h)
        /\ reqs'[r].stale => r \notin bytecodeReqs' \cup bytecodeHealReqs']_vars

\* A heal request and a sync request were reverted; the hashes of the heal
\* request are pending in the healer and the request is in no ledger.
C17_Witness ==
  /\ loop = "select"
  /\ \E r, q \in ThisCycle :
        /\ reqs[r].heal /\ reqs[r].stale /\ ~reqs[q].heal /\ reqs[q].stale
        /\ r \notin bytecodeHealReqs
        /\ Range(reqs[r].hashes) \subseteq healer.codeTasks

(* -------------------------------- C18 --------------------------------- *)
\* C18: the stale channel of a request is closed once and stays closed, and
\* a revert of a request whose stale channel is closed changes nothing:
\* neither the ledgers nor the pending sets nor the request.
C18_RevertIdempotent ==
  [][\A r \in ReqSet :
        /\ reqs[r].stale => reqs'[r].stale
        /\ reqs[r].stale => RevertEither(r, LoopState) = LoopState
        /\ Reverts(r) => RevertEither(r, LoopState)' = LoopState']_vars

\* A reverted request whose hashes have moved on (they are no longer all
\* pending) has a thread left that can still ask for its revert.
C18_Witness ==
  \E r \in ThisCycle :
     /\ reqs[r].stale /\ loop = "select"
     /\ ~(Range(reqs[r].hashes) \subseteq PendingHashes)
     /\ Running(reqs[r])

(* -------------------------------- C19 --------------------------------- *)
\* C19: a request is completed once: the loop processes the response of a
\* request only if the request was not reverted and its timer did not fire,
\* and it reverts a request only if it has not taken its response.
C19_CompletedExactlyOnce ==
  [][\A r \in ReqSet :
        /\ (Receives(r) \/ Consumes(r)) =>
              (~reqs[r].stale /\ reqs[r].timeout # "fired")
        /\ Reverts(r) => (~reqs[r].consumed /\ reqs[r].hnd # "processing")]_vars

(* -------------------------------- C21 --------------------------------- *)
\* The heal hashes the code store holds: only the heal phase writes them.
HealPersisted == {h \in HealWant : codeStore[h] # Nil}

\* C21: once Sync has loaded the progress record, and whenever no heal
\* response is half processed, bytecodeHealSynced is the number of distinct
\* hashes persisted by healing and bytecodeHealBytes the sum of the lengths
\* of their blobs: a code the scheduler did not ask for is not counted.
C21_NoDuplicateHealAccounting ==
  (cycle > 0 /\ loop # "committing") =>
     /\ bytecodeHealSynced = Cardinality(HealPersisted)
     /\ bytecodeHealBytes = SumOver(HealPersisted, [h \in HashSpace |-> BlobLen(codeStore[h])])

(* -------------------------------- C22 --------------------------------- *)
\* C22: with no progress record, or one that does not decode, loadSyncStatus
\* leaves the four counters at zero and exactly accountConcurrency account
\* tasks whose ranges [Next, Last] are contiguous, pairwise disjoint and
\* cover the hash space: the first Next is 0, each following Next is the
\* Last before it plus one, the final Last is the last hash.
C22_FreshPlan ==
  (val.op = "loadSyncStatus" /\ val.err = "planned") =>
     /\ bytecodeSynced = 0 /\ bytecodeBytes = 0
     /\ bytecodeHealSynced = 0 /\ bytecodeHealBytes = 0
     /\ Len(tasks) = accountConcurrency
     /\ tasks[1].Next = 0
     /\ \A i \in 2..Len(tasks) : tasks[i].Next = tasks[i - 1].Last + 1
     /\ tasks[Len(tasks)].Last = HashSpaceSize - 1
     /\ \A h \in 0..(HashSpaceSize - 1) :
           Cardinality({i \in DOMAIN tasks : tasks[i].Next <= h /\ h <= tasks[i].Last}) = 1

\* The plan is made by a syncer whose counters were not zero, over a record
\* that does not decode.
C22_Witness ==
  /\ val.op = "loadSyncStatus" /\ val.err = "planned"
  /\ status = "undecodable"
  /\ val.hashes = <<1, 1, 1, 1>>
  /\ Len(tasks) = accountConcurrency

(* -------------------------------- C23 --------------------------------- *)
\* The counters the progress record st decodes to.
Saved(st) ==
  <<Unmarshal(st.BytecodeSynced), Unmarshal(st.BytecodeBytes),
    Unmarshal(st.BytecodeHealSynced), Unmarshal(st.BytecodeHealBytes)>>

\* C23: whenever Sync has returned, by completion or by cancellation, the
\* progress record in the database decodes to the four counters of the
\* syncer, and the start of a cycle loads the four counters of the record.
C23_CheckpointRoundTrip ==
  [][/\ (loop' = "idle" /\ cycle' > 0) => Saved(status') = counters'
     /\ cycle' # cycle => counters' = Saved(status)]_vars

\* A syncer that loaded a record with a heal code counted, wrote no code and
\* was cancelled: the record holds the counters again.
C23_Witness ==
  /\ loop = "idle" /\ cycle > 0 /\ syncErr = "cancelled"
  /\ persisted = {} /\ reqs # <<>>
  /\ bytecodeHealSynced = 1 /\ bytecodeBytes > 0
  /\ Saved(status) = counters

(* -------------------------------- C24 --------------------------------- *)
\* The code entries an uninterrupted run over the work set ends with.
FullStore == [h \in HashSpace |-> IF h \in Hashes \cup HealWant THEN BlobOf(h) ELSE Nil]

OffLoopStep ==
  \/ \E p \in Peers, id \in ReqIds : PeerReplies(p, id)
  \/ \E r \in ReqIds : TimeoutFires(r)
  \/ \E r \in ReqIds, who \in Waiters : ScheduleRevertGivesUp(r, who)
  \/ \E r \in ReqIds : DeliverGivesUp(r)
  \/ \E p \in Peers : Register(p) \/ Unregister(p)

\* C25: a step of a thread other than the loop leaves the two request
\* ledgers and the two idle sets as they are, and the pending sets of the
\* account tasks and of the healer: only the loop modifies them.
C25_LoopOwnsLedgers ==
  [][OffLoopStep =>
        /\ UNCHANGED <<bytecodeReqs, bytecodeHealReqs>>
        /\ UNCHANGED <<bytecodeIdlers, bytecodeHealIdlers>>
        /\ \A t \in TaskIds : taskHeap'[t].codeTasks = taskHeap[t].codeTasks
        /\ healer'.codeTasks = healer.codeTasks]_vars

\* The part of C25 about the pending sets alone.
C25_PendingSetsLoopOnly ==
  [][OffLoopStep =>
        /\ \A t \in TaskIds : taskHeap'[t].codeTasks = taskHeap[t].codeTasks
        /\ healer'.codeTasks = healer.codeTasks]_vars

\* The part of C25 about the reply handlers alone.
C25_HandlersLeaveLedgers ==
  [][(\E p \in Peers, id \in ReqIds : PeerReplies(p, id)) =>
        UNCHANGED <<bytecodeReqs, bytecodeHealReqs, bytecodeIdlers, bytecodeHealIdlers>>]_vars

(* -------------------------------- C26 --------------------------------- *)
\* The step assigns hash h to peer p in a new request.
AssignedTo(p, h) ==
  \E q \in Issued : reqs'[q].peer = p /\ h \in Range(reqs'[q].hashes)

\* C26: no hash is assigned to the same peer again and again without end:
\* for every peer and every hash, from some point on the hash is not
\* assigned to the peer any more.
C26_NoEndlessRetry ==
  \A p \in Peers, h \in Hashes \cup HealWant : <>[][~AssignedTo(p, h)]_vars

(* -------------------------------- C27 --------------------------------- *)
\* A thread is at its send of request rq on the revert channel: the timer
\* callback, or the handler after a refusal or a failed validation.
FailurePending(rq) == rq.timeout = "fired" \/ rq.hnd = "revert"

HoldsLock(t) == val.id = t \/ t \in val.codes
WaitsForLock(t) ==
  \/ NextOp(t) = "Lock" /\ (val.id # "none" \/ val.codes # {})
  \/ NextOp(t) = "RLock" /\ val.id # "none"

\* C28: no thread holds s.lock at a blocking channel operation, at the feed
\* or at the peer's I/O; the loop does not hold it at its select; and no
\* thread waits at a channel with the lock held while another thread waits
\* for the lock.
C28_NoLockAcrossBlocking ==
  val.op = "lock" =>
     /\ \A t \in Threads : HoldsLock(t) => NextOp(t) \notin Blocking
     /\ \A t \in Threads : HoldsLock(t) => NextOp(t) # "none"
     /\ ~\E t, u \in Threads :
            HoldsLock(t) /\ NextOp(t) \in Blocking /\ WaitsForLock(u)

\* The handler waits at its send, the lock released, while the loop holds
\* the lock in an assignment and the caller of Register waits for it.
C28_Witness ==
  /\ val.op = "lock"
  /\ NextOp("handler") = "send" /\ ~HoldsLock("handler")
  /\ HoldsLock("sync") /\ WaitsForLock("caller")

(* -------------------------------- C29 --------------------------------- *)
\* Request r of the running cycle is outstanding: neither reverted nor
\* processed.
Outstanding(r) == reqs[r].cyc = cycle /\ ~reqs[r].stale /\ ~reqs[r].consumed

C30_HealAfterSync ==
  [][/\ \A q \in Issued :
           /\ reqs'[q].heal => (tasks' = <<>> /\ \A u \in Issued : reqs'[u].heal)
           /\ ~reqs'[q].heal => ~\E r \in ThisCycle : reqs[r].heal
     /\ (tasks' # <<>> /\ cycle' = cycle) =>
           /\ bytecodeHealReqs' \subseteq bytecodeHealReqs
           /\ healer' = healer]_vars

\* The sync request of the cycle was processed, no task is left and a heal
\* request is in the heal ledger.
C30_Witness ==
  /\ loop = "select" /\ tasks = <<>>
  /\ \E r, q \in ThisCycle :
        /\ ~reqs[r].heal /\ reqs[r].consumed
        /\ q > r /\ reqs[q].heal /\ q \in bytecodeHealReqs

(* -------------------------------- C31 --------------------------------- *)
\* The peers a pass can take, the peers it took and the capacity of a peer.
Candidates ==
  (IF tasks # <<>> THEN bytecodeIdlers ELSE bytecodeHealIdlers) \ statelessPeers
Served == {reqs'[q].peer : q \in Issued}
PassCap(p) == val.codes[p]
Assignable == {t \in Range(tasks) : taskHeap[t].res /\ taskHeap[t].codeTasks # {}}

\* C31: in one assignment pass the requests go to idle peers that are not
\* stateless, in the order of issue to peers of non-increasing capacity, no
\* peer left out has more capacity than one that was taken, no peer gets two
\* requests, every peer taken leaves the idle set of the phase and no other
\* does; a sync pass issues one request per assignable task until the idle
\* peers run out, a heal pass issues requests until the idle peers or the
\* healer's pending codes run out.
C31_OnePassByCapacity ==
  [][(loop = "top" /\ loop' = "select") =>
       /\ \A q \in Issued : /\ reqs'[q].peer \in Candidates
                            /\ reqs'[q].heal = (tasks = <<>>)
       /\ \A q, u \in Issued :
             q < u => /\ PassCap(reqs'[q].peer) >= PassCap(reqs'[u].peer)
                      /\ reqs'[q].peer # reqs'[u].peer
       /\ \A q \in Issued, p \in Candidates \ Served :
             PassCap(p) <= PassCap(reqs'[q].peer)
       /\ IF tasks # <<>>
          THEN /\ bytecodeIdlers' = bytecodeIdlers \ Served
               /\ bytecodeHealIdlers' = bytecodeHealIdlers
               /\ Cardinality(Issued) =
                     Min(Cardinality(Candidates), Cardinality(Assignable))
          ELSE /\ bytecodeHealIdlers' = bytecodeHealIdlers \ Served
               /\ bytecodeIdlers' = bytecodeIdlers
               /\ Cardinality(Issued) <= Cardinality(Candidates)
               /\ \/ Served = Candidates
                  \/ healer'.codeTasks = {}]_vars

\* A pass issued two requests, the first to a peer of more capacity than the
\* second, and left an idle peer of less capacity without one.
C31_Witness ==
  /\ val.op = "assign" /\ loop = "select" /\ Len(reqs) = 2
  /\ PassCap(reqs[1].peer) > PassCap(reqs[2].peer)
  /\ \E p \in (IF tasks # <<>> THEN bytecodeIdlers ELSE bytecodeHealIdlers)
                \ statelessPeers : PassCap(p) < PassCap(reqs[2].peer)

(* -------------------------------- C32 --------------------------------- *)
\* The pending set request q of the pass was taken from, as it was when the
\* request was built: the codes of its task, or those of the healer after
\* the scheduler's fill, less the manifests of the requests built before it.
PendingAtIssue(q) ==
  IF reqs'[q].heal
  THEN (healer.codeTasks \cup healer.queue)
         \ UNION {Range(reqs'[u].hashes) : u \in {v \in Issued : v < q}}
  ELSE taskHeap[reqs'[q].task].codeTasks

PendingAfter(q) ==
  IF reqs'[q].heal THEN healer'.codeTasks ELSE taskHeap'[reqs'[q].task].codeTasks

\* The manifest of request q holds n hashes, or all the pending ones when
\* they are fewer, each of them once, and they are pending no more.
Sized(q, n) ==
  /\ Len(reqs'[q].hashes) = Min(n, Cardinality(PendingAtIssue(q)))
  /\ Cardinality(Range(reqs'[q].hashes)) = Len(reqs'[q].hashes)
  /\ Range(reqs'[q].hashes) \subseteq PendingAtIssue(q)
  /\ Range(reqs'[q].hashes) \cap PendingAfter(q) = {}

\* C32: every request a pass issues carries min(capacity of its peer,
\* maxCodeRequestCount) hashes of its source's pending set, or all of them
\* when fewer are pending, and the hashes leave the pending set.
C32_SizedAndDrained ==
  [][(loop = "top" /\ loop' = "select") =>
       \A q \in Issued : Sized(q, Min(PassCap(reqs'[q].peer), maxCodeRequestCount))]_vars

\* The same for the peers of capacity one and more; a request to a peer of
\* less capacity carries one hash.
SizedFromOne ==
  [][(loop = "top" /\ loop' = "select") =>
       \A q \in Issued :
          IF PassCap(reqs'[q].peer) >= 1
          THEN Sized(q, Min(PassCap(reqs'[q].peer), maxCodeRequestCount))
          ELSE Sized(q, 1)]_vars

(* -------------------------------- C33 --------------------------------- *)
\* C33: the id the allocation loop ends with is not zero and not a key of
\* the ledger of its phase; recording the request adds this one key to that
\* ledger, replaces no entry of it and leaves the other ledger alone; no
\* ledger has the key zero.
C33_FreshNonZeroId ==
  /\ [](0 \notin bytecodeReqs \cup bytecodeHealReqs)
  /\ [](val.err = "break" => val.id # 0 /\ val.id \notin PassLedger)
  /\ [](val.err = "recorded" => ~val.done /\ val.id \in PassLedger)
  /\ [][val'.err = "recorded" =>
          /\ val.id \notin PassLedger
          /\ IF val.heal
             THEN /\ bytecodeHealReqs' = bytecodeHealReqs \cup {val.id}
                  /\ bytecodeReqs' = bytecodeReqs
             ELSE /\ bytecodeReqs' = bytecodeReqs \cup {val.id}
                  /\ bytecodeHealReqs' = bytecodeHealReqs]_vars

\* A request was recorded in the sync ledger, which had one id left, under
\* an id that is a key of the heal ledger.
C33_Witness ==
  /\ val.op = "reqid" /\ val.err = "recorded" /\ ~val.heal
  /\ val.id \in bytecodeHealReqs
  /\ Cardinality(bytecodeReqs) = MaxId

(* -------------------------------- C34 --------------------------------- *)
\* C34: a step that performs an effective revert of a request leaves a
\* notification in s.update.
C34_RevertSignalsUpdate ==
  [][\A r \in ReqSet : Reverts(r) => update']_vars

\* What holds instead: a revert is a step of the loop, which leaves every
\* hash of the request pending or in a new request and is at its select
\* again, or on its way to it, with no notification of its own.
RevertRunsInLoop ==
  [][\A r \in ReqSet :
       Reverts(r) =>
         /\ loop \in {"select", "reverting"}
         /\ loop' \in {"select", "reverting", "halted", "idle"}
         /\ loop' # "idle" => \A h \in Range(reqs[r].hashes) : Requeued(r, h)
         /\ update' => update]_vars

(* -------------------------------- C35 --------------------------------- *)
\* C35: no peer of an idle set is the peer of a request in the ledger of the
\* same phase.
C35_IdleHasNoRequest ==
  /\ \A p \in bytecodeIdlers : \A r \in bytecodeReqs : reqs[r].peer # p
  /\ \A p \in bytecodeHealIdlers : \A r \in bytecodeHealReqs : reqs[r].peer # p

\* A peer is idle with a request in the ledger only after a step other than
\* an assignment made it so: the loop does not put a request on a peer into
\* a ledger and leave the peer idle.
AssignmentTakesIdle ==
  [][\A q \in Issued :
       IF reqs'[q].heal THEN reqs'[q].peer \notin bytecodeHealIdlers'
       ELSE reqs'[q].peer \notin bytecodeIdlers']_vars

(* -------------------------------- C36 --------------------------------- *)
\* C36: a revert of a request writes neither idle set; a step of the loop
\* that reverts a request leaves the stateless set as it is and adds no peer
\* to an idle set (the pass that follows takes from them the peers it gives
\* a request to); and a peer joins an idle set only in a step of a reply
\* handler for a packet of that peer or in its Register.
C36_RevertLeavesIdleSets ==
  /\ [](\A r \in ReqSet :
          LET st == RevertEither(r, LoopState)
          IN /\ st.bytecodeIdlers = bytecodeIdlers
             /\ st.bytecodeHealIdlers = bytecodeHealIdlers)
  /\ [][\A r \in ReqSet :
          Reverts(r) =>
            /\ statelessPeers' = statelessPeers
            /\ bytecodeIdlers' = bytecodeIdlers \ {reqs'[q].peer : q \in {u \in Issued : ~reqs'[u].heal}}
            /\ bytecodeHealIdlers' =
                  bytecodeHealIdlers \ {reqs'[q].peer : q \in {u \in Issued : reqs'[u].heal}}]_vars
  /\ [][\A p \in Peers :
          (\/ p \in bytecodeIdlers' \ bytecodeIdlers
           \/ p \in bytecodeHealIdlers' \ bytecodeHealIdlers) =>
            \/ Register(p)
            \/ \E id \in ReqIds : PeerReplies(p, id)]_vars

\* The request of a registered peer was reverted after its timer fired; the
\* loop is at its select, the hashes are pending and the peer is not idle.
C36_Witness ==
  /\ loop = "select"
  /\ \E r \in ThisCycle :
        /\ ~reqs[r].heal /\ reqs[r].stale /\ reqs[r].reply = "none"
        /\ reqs[r].peer \in peers \ (bytecodeIdlers \cup statelessPeers)
        /\ Range(reqs[r].hashes) \subseteq taskHeap[reqs[r].task].codeTasks
        /\ bytecodeReqs = {}

(* -------------------------------- C37 --------------------------------- *)
\* Every hash of the work is in the code store and Sync returned nil.
AllPersisted ==
  /\ loop = "idle" /\ syncErr = "nil"
  /\ \A h \in Hashes \cup HealWant : codeStore[h] # Nil

\* C37: with the good peer registered and staying, under fair scheduling
\* and without cancellation, every hash is eventually persisted and Sync
\* returns nil (or the loop of the model stops at the bound MaxReqs).
C37_GoodPeerCompletes ==
  <>(AllPersisted \/ loop = "halted")

(* -------------------------------- C38 --------------------------------- *)
\* The pending set of the work source request r was cut from.
SourcePending(r) ==
  IF reqs[r].heal THEN healer.codeTasks ELSE taskHeap[reqs[r].task].codeTasks

\* Two requests cut from the same work source.
SameSource(r1, r2) ==
  /\ reqs[r1].heal = reqs[r2].heal
  /\ reqs[r1].heal \/ reqs[r1].task = reqs[r2].task

\* C38: in every reachable state no hash of a request in a ledger is in the
\* pending set of the request's work source, and no two requests in the
\* ledgers that were cut from the same source carry the same hash.
C38_PendingAndManifestsDisjoint ==
  /\ \A r \in bytecodeReqs \cup bytecodeHealReqs :
        Range(reqs[r].hashes) \cap SourcePending(r) = {}
  /\ \A r1, r2 \in bytecodeReqs \cup bytecodeHealReqs :
        r1 # r2 /\ SameSource(r1, r2)
          => Range(reqs[r1].hashes) \cap Range(reqs[r2].hashes) = {}

\* No request was reverted by the loop and has its response with the loop
\* as well (the case of C1).
NoRevertedDelivery ==
  \A r \in ReqSet :
     ~(reqs[r].stale /\ (reqs[r].consumed \/ reqs[r].hnd \in {"deliver", "processing"}))

\* The disjointness of C38 in the states C1's case has not touched.
DisjointUnlessRevertedDelivery ==
  NoRevertedDelivery => C38_PendingAndManifestsDisjoint

(* -------------------------------- C39 --------------------------------- *)
\* C39: in every reachable state the sync idle set, the heal idle set and the
\* stateless set hold only ids of registered peers.
C39_FlagSetsWithinPeers ==
  bytecodeIdlers \cup bytecodeHealIdlers \cup statelessPeers \subseteq peers

\* The two idle sets hold only ids of registered peers.
IdleSetsWithinPeers ==
  bytecodeIdlers \cup bytecodeHealIdlers \subseteq peers

(* -------------------------------- C40 --------------------------------- *)
\* C40: the handling of a peer-drop event reverts only requests that were
\* issued before the Unregister call that sent the event: a request issued
\* to the id after it was registered again is not reverted by it.
C40_DropRevertsOnlyEarlier ==
  [][\A r \in ReqSet :
        (loop = "reverting" /\ Reverts(r)) => r <= val.id]_vars

\* What the drop handling reverts is in a ledger and belongs to the id of
\* the event.
DropRevertsOwnRequests ==
  [][RecvPeerDrop =>
        \A r \in dropSnap' : /\ reqs[r].peer = Head(peerDrop)
                             /\ r \in bytecodeReqs \cup bytecodeHealReqs]_vars
====
